---- MODULE Spec2Model ----
(***************************************************************************)
(* Usage-record persistence: the PersistencePlugin write buffer (mutex,    *)
(* buffer, stopped flag, stop channel, flush timer goroutine, detached     *)
(* background writers), the explicit Flush / Stop / Close / Shutdown path  *)
(* and the store's InsertBatch / Close as the plugin uses them; the SQLite  *)
(* store itself: the usage_records table, the InsertBatch transaction and  *)
(* the read and maintenance operations over the table, its id column and   *)
(* the schema script run at every open; and the host around them:          *)
(* Initialize, the retention cleanup job and its ticker across restarts   *)
(* of the process, the GET /_qs/metrics handler, and the BasicAuth         *)
(* middleware.                                                             *)
(***************************************************************************)
EXTENDS Integers, Sequences, FiniteSets, Bags, TLC

\* ---------------------------------------------------------------- bounds
\* number of HandleUsage calls made over one run (each carries a fresh event)
MaxEvents == 3
\* largest configured buffer size tried (0 stands for "not configured")
MaxBufferSize == 2
\* largest number of rows the usage_records table is filled with
MaxRows == 2
\* largest number of records in one InsertBatch call
MaxBatch == 2

\* ---------------------------------------------------------------- tasks
\* concurrent callers of HandleUsage (one per in-flight proxied request)
Submitters == {"h1", "h2"}
\* callers of the explicit Flush
Flushers == {"f1"}
\* callers of Stop / Close / Shutdown
Stoppers == {"s1", "s2"}
\* the goroutine started by startFlushTimer
TimerTask == "timer"
\* every task that takes p.mu
Tasks == Submitters \cup Flushers \cup Stoppers \cup {TimerTask}
\* the value of mu when no task holds the mutex
Free == "free"
\* which exported operation a stopper task enters through: Stop alone, or
\* Shutdown, which calls Close, which calls Stop
Entries == {"Stop", "Shutdown"}

VARIABLES
    callers,      \* the tasks that make calls in this run
    hasStorage,   \* p.storage != nil
    bufferSize,   \* p.bufferSize
    flushInterval, \* p.flushInterval, in milliseconds
    buffer,       \* p.buffer: sequence of event ids
    stopped,      \* p.stopped
    mu,           \* p.mu: the holder, or Free
    stopChCloses, \* number of close(p.stopCh) executed (a second one panics)
    pc,           \* position of every task
    entry,        \* the operation a stopper entered through
    toFlush,      \* Flush's local copy of the drained buffer
    flushRet,     \* value returned by a flusher's last Flush
    stopRet,      \* value returned by the task's Stop
    closeRet,     \* value returned by the task's PersistencePlugin.Close
    writers,      \* detached goroutines started by flushLocked
    issued,       \* bag of the batches handed to InsertBatch so far
    store,        \* rows of usage_records: a bag of the events written
    closed,       \* the store's db has been closed
    accepted,     \* events HandleUsage appended to the buffer, in order
    calls,        \* number of HandleUsage calls made so far
    dropped,      \* events of the batches whose InsertBatch returned an error
    finalFlushBy, \* the Stop calls that went on to the final Flush
    dbCloseRes,   \* what the store's Close returned to the task's Close
    usage_records, \* the rows of the usage_records table (a bag)
    tx,           \* the transaction of the InsertBatch call in progress
    ret,          \* what the last read or maintenance operation returned
    ids,          \* column id of usage_records: the row of every id in use
    sqlite_sequence, \* the largest id usage_records has ever held
    schema,       \* the database file's schema objects and schema_version
    globalStorage, \* persistence.globalStorage
    globalPersistencePlugin, \* persistence.globalPersistencePlugin
    plugins,      \* the plugins registered with coreusage
    cleanupJob,   \* the goroutine running startCleanupJob
    cancelled,    \* the callers' contexts that are cancelled or expired
    request,      \* the GET /_qs/metrics request being served
    initialized,  \* Initialize has been called in the running process
    now           \* the clock read by time.Now()

\* the state of the PersistencePlugin and its callers
pluginVars == <<callers, hasStorage, bufferSize, flushInterval, buffer,
                stopped, mu, stopChCloses, pc, entry, toFlush, flushRet,
                stopRet, closeRet, writers, issued, store, closed, accepted,
                calls, dropped, finalFlushBy, dbCloseRes>>

\* what the database file holds
stored == <<usage_records, ids, sqlite_sequence, schema>>

\* the state of the SQLiteStorage and its callers
dbVars == <<stored, tx, ret>>

\* the state of package persistence and of its host process
hostVars == <<globalStorage, globalPersistencePlugin, plugins, cleanupJob,
              cancelled, request, initialized, now>>

vars == <<pluginVars, dbVars, hostVars>>

\* ---------------------------------------------------------------- helpers
Range(s) == {s[i] : i \in 1..Len(s)}

\* default buffer size of NewPersistencePlugin
DefaultBufferSize == 100

\* A time.Duration is counted in milliseconds. The default flush interval of
\* NewPersistencePlugin and Initialize: 10 * time.Second
DefaultFlushInterval == 10000

\* NewPersistencePlugin that takes the buffer size and the flush interval
\* as they are given
NewPersistencePluginAsGiven(storage, size, interval) ==
    [storage       |-> storage,
     bufferSize    |-> size,
     flushInterval |-> interval,
     buffer        |-> <<>>,
     stopped       |-> FALSE]

\* NewPersistencePlugin: a non-positive buffer size and a non-positive flush
\* interval fall back to the defaults
NewPersistencePlugin(storage, size, interval) ==
    [storage       |-> storage,
     bufferSize    |-> IF size <= 0 THEN DefaultBufferSize ELSE size,
     flushInterval |-> IF interval <= 0 THEN DefaultFlushInterval
                       ELSE interval,
     buffer        |-> <<>>,
     stopped       |-> FALSE]

\* ---------------------------------------------------------------- durations
\* The text of a duration is the sequence of its characters. The value of a
\* decimal digit:
Digit ==
    ("0" :> 0) @@ ("1" :> 1) @@ ("2" :> 2) @@ ("3" :> 3) @@ ("4" :> 4)
       @@ ("5" :> 5) @@ ("6" :> 6) @@ ("7" :> 7) @@ ("8" :> 8) @@ ("9" :> 9)

\* the units of time.ParseDuration that are whole milliseconds
unitMap ==
    (<<"m", "s">> :> 1) @@ (<<"s">> :> 1000) @@ (<<"m">> :> 60000)
       @@ (<<"h">> :> 3600000)

\* leadingInt: the run of digits s starts with, as a number added to x, and
\* the rest of s
RECURSIVE leadingInt(_, _)
leadingInt(s, x) ==
    IF s # <<>> /\ Head(s) \in DOMAIN Digit
    THEN leadingInt(Tail(s), x * 10 + Digit[Head(s)])
    ELSE [x |-> x, rem |-> s]

\* the length of the unit s starts with: the characters up to the next digit
\* or point
RECURSIVE unitLen(_)
unitLen(s) ==
    IF s = <<>> \/ Head(s) = "." \/ Head(s) \in DOMAIN Digit
    THEN 0
    ELSE 1 + unitLen(Tail(s))

\* the loop of time.ParseDuration over the groups of a number and a unit,
\* d being the sum of the groups before s (texts with a fraction are not
\* among those tried: a point is taken as an error here)
RECURSIVE parseGroups(_, _)
parseGroups(s, d) ==
    IF s = <<>>
    THEN [d |-> d, err |-> "nil"]
    ELSE IF Head(s) \notin DOMAIN Digit
    THEN [d |-> 0, err |-> "err"]
    ELSE LET n == leadingInt(s, 0)
             i == unitLen(n.rem)
             u == SubSeq(n.rem, 1, i)
         IN IF i = 0 \/ u \notin DOMAIN unitMap
            THEN [d |-> 0, err |-> "err"]
            ELSE parseGroups(SubSeq(n.rem, i + 1, Len(n.rem)),
                             d + n.x * unitMap[u])

\* time.ParseDuration: an optional sign, then "0" or one or more groups of
\* a number and a unit; the empty text is an error
ParseDuration(text) ==
    LET signed == text # <<>> /\ Head(text) \in {"-", "+"}
        neg == text # <<>> /\ Head(text) = "-"
        s == IF signed THEN Tail(text) ELSE text
        r == parseGroups(s, 0)
    IN IF s = <<"0">> THEN [d |-> 0, err |-> "nil"]
       ELSE IF s = <<>> THEN [d |-> 0, err |-> "err"]
       ELSE IF r.err = "nil" /\ neg THEN [d |-> 0 - r.d, err |-> "nil"]
       ELSE r

\* convertRecord: the persisted record made from the caller's event; events
\* are opaque here and named by their position in the acceptance order
NewEvent(acc) == Len(acc) + 1

\* context.Background(): the context that is never done
Background == "Background"

\* the deadline flushLocked gives a background write: 30 * time.Second
WriteTimeout == 30000

\* context.WithTimeout(parent, timeout)
WithTimeout(parent, timeout) == [parent |-> parent, timeout |-> timeout]

\* the context is done because its parent is, given the callers' contexts
\* that are done (its own deadline can pass at any time: that is one of the
\* ways the operation it is passed to fails)
Done(ctx, done) == ctx.parent \in done

\* a writer that runs under a deadline added to the context of the caller
NewWriterOnCallerContext(ctx, batch, src) ==
    [batch |-> batch, st |-> "spawned", res |-> "none", src |-> src,
     ctx |-> WithTimeout(ctx, WriteTimeout)]

\* a goroutine started by flushLocked, before it has called InsertBatch: it
\* makes its own context from context.Background(), not from the ctx
\* flushLocked was called with
NewWriter(ctx, batch, src) ==
    [batch |-> batch, st |-> "spawned", res |-> "none", src |-> src,
     ctx |-> WithTimeout(Background, WriteTimeout)]

\* flushLocked that starts the write but leaves the events in the buffer
flushLockedNoClear(ctx, buf, ws, src) ==
    IF Len(buf) = 0
    THEN [buffer |-> buf, writers |-> ws]
    ELSE [buffer |-> buf, writers |-> Append(ws, NewWriter(ctx, buf, src))]

\* flushLocked: no-op on an empty buffer; otherwise copy the buffer, clear it
\* and start a detached goroutine that writes the copy
flushLocked(ctx, buf, ws, src) ==
    IF Len(buf) = 0
    THEN [buffer |-> buf, writers |-> ws]
    ELSE [buffer |-> <<>>, writers |-> Append(ws, NewWriter(ctx, buf, src))]

\* InsertBatch on a closed db: BeginTx fails, nothing is written
InsertBatchBegins(isClosed) == ~isClosed

\* InsertBatch's effect on the table: one transaction, all rows or none
InsertBatch(rows, batch, ok) ==
    IF ok THEN rows (+) SetToBag(Range(batch)) ELSE rows

\* the events lost with a batch whose InsertBatch failed
Lost(batch, ok) == IF ok THEN {} ELSE Range(batch)

\* the error value InsertBatch returns
InsertBatchErr(ok) == IF ok THEN "nil" ELSE "err"

\* CloseResult that returns the Stop error when there is one
CloseResultPropagating(stopErr, storageCloseErr) ==
    IF stopErr # "nil" THEN stopErr ELSE storageCloseErr

\* Close: a Stop error is only logged; Close returns what closing the store
\* returned
CloseResult(stopErr, storageCloseErr) == storageCloseErr

\* Shutdown wraps a non-nil error of Close and returns nil otherwise
Shutdown(closeResult) == IF closeResult = "nil" THEN "nil" ELSE "err"

\* ---------------------------------------------------------------- store state
\* no InsertBatch call is in progress
NoTx == [st |-> "idle"]

\* no read or maintenance operation has returned since the last write
NoRet == [op |-> "none"]

\* no metrics request is being served
NoRequest == [pc |-> "none"]

\* ---------------------------------------------------------------- schema.sql
\* the statements of schema.sql, in the order of the script
schemaSQL ==
    <<[stmt |-> "CREATE TABLE IF NOT EXISTS", name |-> "usage_records"],
      [stmt |-> "CREATE INDEX IF NOT EXISTS", name |-> "idx_usage_timestamp"],
      [stmt |-> "CREATE INDEX IF NOT EXISTS", name |-> "idx_usage_model"],
      [stmt |-> "CREATE INDEX IF NOT EXISTS", name |-> "idx_usage_api_key"],
      [stmt |-> "CREATE INDEX IF NOT EXISTS", name |-> "idx_usage_provider"],
      [stmt |-> "CREATE INDEX IF NOT EXISTS",
       name |-> "idx_usage_created_at"],
      [stmt |-> "CREATE INDEX IF NOT EXISTS", name |-> "idx_usage_failed"],
      [stmt |-> "CREATE INDEX IF NOT EXISTS",
       name |-> "idx_usage_timestamp_model"],
      [stmt |-> "CREATE INDEX IF NOT EXISTS",
       name |-> "idx_usage_timestamp_provider"],
      [stmt |-> "CREATE VIEW IF NOT EXISTS", name |-> "usage_aggregates"],
      [stmt |-> "CREATE VIEW IF NOT EXISTS", name |-> "usage_daily"],
      [stmt |-> "CREATE VIEW IF NOT EXISTS", name |-> "usage_by_model"],
      [stmt |-> "CREATE TABLE IF NOT EXISTS", name |-> "schema_version"],
      [stmt |-> "INSERT OR IGNORE", name |-> "schema_version",
       version |-> 1]>>

\* a database file no schema statement has run on
NoSchema == [objects |-> {}, schema_version |-> EmptyBag]

\* CREATE ... that fails when the object exists (no IF NOT EXISTS)
CreateAlways(sch, name) ==
    IF name \in sch.objects
    THEN [schema |-> sch, err |-> "err"]
    ELSE [schema |-> [sch EXCEPT !.objects = @ \cup {name}], err |-> "nil"]

\* CREATE TABLE / INDEX / VIEW IF NOT EXISTS: creates the object, or does
\* nothing when an object of that name exists
CreateIfNotExists(sch, name) ==
    [schema |-> [sch EXCEPT !.objects = @ \cup {name}], err |-> "nil"]

\* INSERT OR IGNORE INTO schema_version (version) VALUES (v): version is the
\* primary key, so the row is added unless a row of that version exists
InsertOrIgnore(sch, v) ==
    IF "schema_version" \notin sch.objects
    THEN [schema |-> sch, err |-> "err"]
    ELSE [schema |->
              IF CopiesIn(v, sch.schema_version) > 0
              THEN sch
              ELSE [sch EXCEPT !.schema_version = @ (+) SetToBag({v})],
          err |-> "nil"]

\* one statement of the script
ExecStatement(sch, s) ==
    IF s.stmt = "INSERT OR IGNORE"
    THEN InsertOrIgnore(sch, s.version)
    ELSE CreateIfNotExists(sch, s.name)

\* db.Exec(schemaSQL) from statement i on: the statements run one after the
\* other, each committed on its own; the first one that fails (failAt is
\* the statement an I/O fault hits, 0 for none) ends the script with its
\* error and leaves what ran before it
RECURSIVE ExecSchemaFrom(_, _, _)
ExecSchemaFrom(sch, i, failAt) ==
    IF i > Len(schemaSQL)
    THEN [schema |-> sch, err |-> "nil"]
    ELSE IF i = failAt
    THEN [schema |-> sch, err |-> "err"]
    ELSE LET r == ExecStatement(sch, schemaSQL[i])
         IN IF r.err # "nil"
            THEN r
            ELSE ExecSchemaFrom(r.schema, i + 1, failAt)

\* db.Exec(schemaSQL)
ExecSchema(sch, failAt) == ExecSchemaFrom(sch, 1, failAt)

\* a freshly opened store: the schema applied to a new file, the table empty
InitDB ==
    /\ usage_records = EmptyBag
    /\ tx = NoTx
    /\ ret = NoRet
    /\ ids = << >>
    /\ sqlite_sequence = 0
    /\ schema = ExecSchema(NoSchema, 0).schema

\* ---------------------------------------------------------------- host state
\* a host process in which Initialize has not been called
InitHost ==
    /\ globalStorage = "nil"
    /\ globalPersistencePlugin = "nil"
    /\ plugins = <<>>
    /\ cleanupJob = [pc |-> "none"]
    /\ cancelled = {}
    /\ request = NoRequest
    /\ initialized = FALSE
    /\ now = [sec |-> 40 * 86400, frac |-> 0, zone |-> 0]

\* ---------------------------------------------------------------- Init
InitPlugin ==
    /\ hasStorage \in BOOLEAN
    /\ \E size \in 0..MaxBufferSize :
          LET p == NewPersistencePlugin(hasStorage, size,
                                        DefaultFlushInterval) IN
             /\ bufferSize = p.bufferSize
             /\ flushInterval = p.flushInterval
             /\ buffer = p.buffer
             /\ stopped = p.stopped
    /\ mu = Free
    /\ stopChCloses = 0
    /\ pc = [t \in Tasks |-> IF t = TimerTask THEN "select" ELSE "idle"]
    /\ entry = [t \in Stoppers |-> "none"]
    /\ toFlush = [t \in Flushers \cup Stoppers |-> <<>>]
    /\ flushRet = [t \in Flushers |-> "none"]
    /\ stopRet = [t \in Stoppers |-> "none"]
    /\ closeRet = [t \in Stoppers |-> "none"]
    /\ writers = <<>>
    /\ issued = EmptyBag
    /\ store = EmptyBag
    /\ closed = FALSE
    /\ accepted = <<>>
    /\ calls = 0
    /\ dropped = {}
    /\ finalFlushBy = {}
    /\ dbCloseRes = [t \in Stoppers |-> "none"]

\* the plugin with every task calling into it
Init == InitPlugin /\ callers = Tasks /\ InitDB /\ InitHost

\* the callers of the runs checked for progress: the HandleUsage callers,
\* the timer and one shutdown
LiveCallers == Submitters \cup {TimerTask, "s1"}

\* the plugin with only LiveCallers calling into it
InitLive == InitPlugin /\ callers = LiveCallers /\ InitDB /\ InitHost

\* Callers are interchangeable, so the second task of a kind is only used
\* while the first one is busy (or has been used): this fixes which name a
\* call gets and removes no behaviour of the plugin.
MayCall(t) ==
    /\ t \in callers
    /\ t = "h2" => pc["h1"] # "idle"
    /\ t = "s2" => pc["s1"] # "idle"

\* the number of HandleUsage calls of one run: MaxEvents, and in a run
\* whose only task is one submitter, one more than fills the buffer
CallLimit == IF callers = {"h1"} THEN bufferSize + 1 ELSE MaxEvents

\* ---------------------------------------------------------------- HandleUsage
\* HandleUsage entry: return at once without a store, else go for the mutex
HandleUsageCall(h) ==
    /\ pc[h] = "idle"
    /\ MayCall(h)
    /\ calls < CallLimit
    /\ calls' = calls + 1
    /\ pc' = [pc EXCEPT ![h] = IF hasStorage THEN "lock" ELSE "idle"]
    /\ UNCHANGED <<dbVars, hostVars, callers, hasStorage, bufferSize,
                   flushInterval, buffer, stopped, mu, stopChCloses, entry,
                   toFlush, flushRet, stopRet, closeRet, writers, issued,
                   store, closed, accepted, dropped, finalFlushBy, dbCloseRes>>

\* HandleUsageLock without the check of p.stopped
HandleUsageLockNoStopCheck(h) ==
    /\ pc[h] = "lock"
    /\ mu = Free
    /\ buffer' = Append(buffer, NewEvent(accepted))
    /\ accepted' = Append(accepted, NewEvent(accepted))
    /\ mu' = h
    /\ pc' = [pc EXCEPT ![h] = "appended"]
    /\ UNCHANGED <<dbVars, hostVars, callers, hasStorage, bufferSize,
                   flushInterval, stopped, stopChCloses, entry, toFlush,
                   flushRet, stopRet, closeRet, writers, issued, store,
                   closed, calls, dropped, finalFlushBy, dbCloseRes>>

\* p.mu.Lock(); stopped => return (deferred Unlock); else append to the buffer
HandleUsageLock(h) ==
    /\ pc[h] = "lock"
    /\ mu = Free
    /\ IF stopped
       THEN /\ pc' = [pc EXCEPT ![h] = "idle"]
            /\ UNCHANGED <<buffer, accepted, mu>>
       ELSE /\ buffer' = Append(buffer, NewEvent(accepted))
            /\ accepted' = Append(accepted, NewEvent(accepted))
            /\ mu' = h
            /\ pc' = [pc EXCEPT ![h] = "appended"]
    /\ UNCHANGED <<dbVars, hostVars, callers, hasStorage, bufferSize,
                   flushInterval, stopped, stopChCloses, entry, toFlush,
                   flushRet, stopRet, closeRet, writers, issued, store,
                   closed, calls, dropped, finalFlushBy, dbCloseRes>>

\* HandleUsageFinish with the threshold tested by > instead of >=
HandleUsageFinishOffByOne(h) ==
    /\ pc[h] = "appended"
    /\ LET r == IF Len(buffer) > bufferSize
                THEN flushLocked(h, buffer, writers, "threshold")
                ELSE [buffer |-> buffer, writers |-> writers] IN
          /\ buffer' = r.buffer
          /\ writers' = r.writers
    /\ mu' = Free
    /\ pc' = [pc EXCEPT ![h] = "idle"]
    /\ UNCHANGED <<dbVars, hostVars, callers, hasStorage, bufferSize,
                   flushInterval, stopped, stopChCloses, entry, toFlush,
                   flushRet, stopRet, closeRet, issued, store, closed,
                   accepted, calls, dropped, finalFlushBy, dbCloseRes>>

\* if len(p.buffer) >= p.bufferSize { flushLocked }; deferred Unlock
HandleUsageFinish(h) ==
    /\ pc[h] = "appended"
    /\ LET r == IF Len(buffer) >= bufferSize
                THEN flushLocked(h, buffer, writers, "threshold")
                ELSE [buffer |-> buffer, writers |-> writers] IN
          /\ buffer' = r.buffer
          /\ writers' = r.writers
    /\ mu' = Free
    /\ pc' = [pc EXCEPT ![h] = "idle"]
    /\ UNCHANGED <<dbVars, hostVars, callers, hasStorage, bufferSize,
                   flushInterval, stopped, stopChCloses, entry, toFlush,
                   flushRet, stopRet, closeRet, issued, store, closed,
                   accepted, calls, dropped, finalFlushBy, dbCloseRes>>

\* ---------------------------------------------------------------- timer
\* case <-ticker.C
TimerTick ==
    /\ pc[TimerTask] = "select"
    /\ pc' = [pc EXCEPT ![TimerTask] = "lock"]
    /\ UNCHANGED <<dbVars, hostVars, callers, hasStorage, bufferSize,
                   flushInterval, buffer, stopped, mu, stopChCloses, entry,
                   toFlush, flushRet, stopRet, closeRet, writers, issued,
                   store, closed, accepted, calls, dropped, finalFlushBy,
                   dbCloseRes>>

\* TimerFlush that starts a write on every tick, whatever the buffer and the
\* stopped flag are
TimerFlushAlways ==
    /\ pc[TimerTask] = "lock"
    /\ mu = Free
    /\ buffer' = <<>>
    /\ writers' = Append(writers, NewWriter(Background, buffer, "timer"))
    /\ pc' = [pc EXCEPT ![TimerTask] = "select"]
    /\ UNCHANGED <<dbVars, hostVars, callers, hasStorage, bufferSize,
                   flushInterval, stopped, mu, stopChCloses, entry, toFlush,
                   flushRet, stopRet, closeRet, issued, store, closed,
                   accepted, calls, dropped, finalFlushBy, dbCloseRes>>

\* TimerFlush that does not look at the stopped flag
TimerFlushWhenStopped ==
    /\ pc[TimerTask] = "lock"
    /\ mu = Free
    /\ LET r == flushLocked(Background, buffer, writers, "timer") IN
          /\ buffer' = r.buffer
          /\ writers' = r.writers
    /\ pc' = [pc EXCEPT ![TimerTask] = "select"]
    /\ UNCHANGED <<dbVars, hostVars, callers, hasStorage, bufferSize,
                   flushInterval, stopped, mu, stopChCloses, entry, toFlush,
                   flushRet, stopRet, closeRet, issued, store, closed,
                   accepted, calls, dropped, finalFlushBy, dbCloseRes>>

\* Lock; if !stopped && len(buffer) > 0 { flushLocked }; Unlock
TimerFlush ==
    /\ pc[TimerTask] = "lock"
    /\ mu = Free
    /\ LET r == IF ~stopped /\ Len(buffer) > 0
                THEN flushLocked(Background, buffer, writers,
                                 "timer")
                ELSE [buffer |-> buffer, writers |-> writers] IN
          /\ buffer' = r.buffer
          /\ writers' = r.writers
    /\ pc' = [pc EXCEPT ![TimerTask] = "select"]
    /\ UNCHANGED <<dbVars, hostVars, callers, hasStorage, bufferSize,
                   flushInterval, stopped, mu, stopChCloses, entry, toFlush,
                   flushRet, stopRet, closeRet, issued, store, closed,
                   accepted, calls, dropped, finalFlushBy, dbCloseRes>>

\* case <-p.stopCh: return
TimerExit ==
    /\ pc[TimerTask] = "select"
    /\ stopChCloses > 0
    /\ pc' = [pc EXCEPT ![TimerTask] = "exit"]
    /\ UNCHANGED <<dbVars, hostVars, callers, hasStorage, bufferSize,
                   flushInterval, buffer, stopped, mu, stopChCloses, entry,
                   toFlush, flushRet, stopRet, closeRet, writers, issued,
                   store, closed, accepted, calls, dropped, finalFlushBy,
                   dbCloseRes>>

\* ---------------------------------------------------------------- writers
\* the detached goroutine calls InsertBatch
WriterBegin(w) ==
    /\ w \in 1..Len(writers)
    /\ writers[w].st = "spawned"
    /\ issued' = issued (+) SetToBag({writers[w].batch})
    /\ LET begins == /\ InsertBatchBegins(closed)
                     /\ ~Done(writers[w].ctx, cancelled)
       IN /\ writers' = [writers EXCEPT ![w] =
                           IF begins
                           THEN [@ EXCEPT !.st = "inside"]
                           ELSE [@ EXCEPT !.st = "done", !.res = "err"]]
          /\ dropped' = IF begins
                        THEN dropped
                        ELSE dropped \cup Lost(writers[w].batch, FALSE)
    /\ UNCHANGED <<dbVars, hostVars, callers, hasStorage, bufferSize,
                   flushInterval, buffer, stopped, mu, stopChCloses, pc,
                   entry, toFlush, flushRet, stopRet, closeRet, store, closed,
                   accepted, calls, finalFlushBy, dbCloseRes>>

\* WriterEnd that retries a failed batch instead of dropping it
WriterEndRetry(w) ==
    /\ w \in 1..Len(writers)
    /\ writers[w].st = "inside"
    /\ \E ok \in {o \in BOOLEAN : o => ~Done(writers[w].ctx, cancelled)} :
          /\ store' = InsertBatch(store, writers[w].batch, ok)
          /\ writers' = [writers EXCEPT ![w] =
                           IF ok
                           THEN [@ EXCEPT !.st = "done", !.res = "nil"]
                           ELSE [@ EXCEPT !.st = "spawned"]]
    /\ UNCHANGED <<dbVars, hostVars, callers, hasStorage, bufferSize,
                   flushInterval, buffer, stopped, mu, stopChCloses, pc,
                   entry, toFlush, flushRet, stopRet, closeRet, issued,
                   closed, accepted, calls, dropped, finalFlushBy, dbCloseRes>>

\* InsertBatch returns to the goroutine, which logs the error and ends
WriterEnd(w) ==
    /\ w \in 1..Len(writers)
    /\ writers[w].st = "inside"
    /\ \E ok \in {o \in BOOLEAN : o => ~Done(writers[w].ctx, cancelled)} :
          /\ store' = InsertBatch(store, writers[w].batch, ok)
          /\ dropped' = dropped \cup Lost(writers[w].batch, ok)
          /\ writers' = [writers EXCEPT ![w] =
                           [@ EXCEPT !.st = "done", !.res = InsertBatchErr(ok)]]
    /\ UNCHANGED <<dbVars, hostVars, callers, hasStorage, bufferSize,
                   flushInterval, buffer, stopped, mu, stopChCloses, pc,
                   entry, toFlush, flushRet, stopRet, closeRet, issued,
                   closed, accepted, calls, finalFlushBy, dbCloseRes>>

\* ---------------------------------------------------------------- Flush
\* where a task goes when its Flush returns r: a flusher is done with the
\* call; a stopper returns r from Stop and, when it came through Close,
\* goes on to close the store
FlushReturn(t, r) ==
    /\ IF t \in Stoppers
       THEN /\ stopRet' = [stopRet EXCEPT ![t] = r]
            /\ pc' = [pc EXCEPT ![t] =
                        IF entry[t] = "Stop" THEN "done" ELSE "close_store"]
            /\ UNCHANGED flushRet
       ELSE /\ flushRet' = [flushRet EXCEPT ![t] = r]
            /\ pc' = [pc EXCEPT ![t] = "idle"]
            /\ UNCHANGED stopRet

\* Flush: Lock (Unlock deferred to return); empty => return nil; else copy the
\* buffer, clear it and call InsertBatch on the copy, the mutex still held
FlushLock(t) ==
    /\ pc[t] = IF t \in Flushers THEN "idle" ELSE "flush_lock"
    /\ t \in callers
    /\ mu = Free
    /\ IF Len(buffer) = 0
       THEN /\ FlushReturn(t, "nil")
            /\ UNCHANGED <<buffer, toFlush, mu, issued, dropped>>
       ELSE /\ toFlush' = [toFlush EXCEPT ![t] = buffer]
            /\ buffer' = <<>>
            /\ issued' = issued (+) SetToBag({buffer})
            /\ IF InsertBatchBegins(closed)
               THEN /\ mu' = t
                    /\ pc' = [pc EXCEPT ![t] = "inserting"]
                    /\ UNCHANGED <<flushRet, stopRet, dropped>>
               ELSE /\ FlushReturn(t, "err")
                    /\ dropped' = dropped \cup Lost(buffer, FALSE)
                    /\ UNCHANGED mu
    /\ finalFlushBy' = IF t \in Stoppers
                       THEN finalFlushBy \cup {t}
                       ELSE finalFlushBy
    /\ UNCHANGED <<dbVars, hostVars, callers, hasStorage, bufferSize,
                   flushInterval, stopped, stopChCloses, entry, closeRet,
                   writers, store, closed, accepted, calls, dbCloseRes>>

\* FlushInsertEnd that puts a failed batch back into the buffer
FlushInsertEndRequeue(t) ==
    /\ pc[t] = "inserting"
    /\ \E ok \in BOOLEAN :
          /\ store' = InsertBatch(store, toFlush[t], ok)
          /\ dropped' = dropped \cup Lost(toFlush[t], ok)
          /\ buffer' = IF ok THEN buffer ELSE toFlush[t] \o buffer
          /\ FlushReturn(t, InsertBatchErr(ok))
    /\ mu' = Free
    /\ UNCHANGED <<dbVars, hostVars, callers, hasStorage, bufferSize,
                   flushInterval, stopped, stopChCloses, entry, toFlush,
                   closeRet, writers, issued, closed, accepted, calls,
                   finalFlushBy, dbCloseRes>>

\* InsertBatch returns; Flush returns its error and the deferred Unlock runs
FlushInsertEnd(t) ==
    /\ pc[t] = "inserting"
    /\ \E ok \in BOOLEAN :
          /\ store' = InsertBatch(store, toFlush[t], ok)
          /\ dropped' = dropped \cup Lost(toFlush[t], ok)
          /\ FlushReturn(t, InsertBatchErr(ok))
    /\ mu' = Free
    /\ UNCHANGED <<dbVars, hostVars, callers, hasStorage, bufferSize,
                   flushInterval, buffer, stopped, stopChCloses, entry,
                   toFlush, closeRet, writers, issued, closed, accepted,
                   calls, finalFlushBy, dbCloseRes>>

\* ---------------------------------------------------------------- Stop / Close
\* Stop without the early return of an already stopped plugin
StopNoCheck(t, e) ==
    /\ pc[t] = "idle"
    /\ MayCall(t)
    /\ mu = Free
    /\ entry' = [entry EXCEPT ![t] = e]
    /\ stopped' = TRUE
    /\ pc' = [pc EXCEPT ![t] = "close_ch"]
    /\ UNCHANGED <<dbVars, hostVars, callers, hasStorage, bufferSize,
                   flushInterval, buffer, mu, stopChCloses, toFlush, flushRet,
                   stopRet, closeRet, writers, issued, store, closed,
                   accepted, calls, dropped, finalFlushBy, dbCloseRes>>

\* Stop (called directly, or by Close for Shutdown): Lock; already stopped =>
\* Unlock, return nil; else stopped = true, Unlock
Stop(t, e) ==
    /\ pc[t] = "idle"
    /\ MayCall(t)
    /\ mu = Free
    /\ entry' = [entry EXCEPT ![t] = e]
    /\ IF stopped
       THEN /\ stopRet' = [stopRet EXCEPT ![t] = "nil"]
            /\ pc' = [pc EXCEPT ![t] =
                        IF e = "Stop" THEN "done" ELSE "close_store"]
            /\ UNCHANGED stopped
       ELSE /\ stopped' = TRUE
            /\ pc' = [pc EXCEPT ![t] = "close_ch"]
            /\ UNCHANGED stopRet
    /\ UNCHANGED <<dbVars, hostVars, callers, hasStorage, bufferSize,
                   flushInterval, buffer, mu, stopChCloses, toFlush, flushRet,
                   closeRet, writers, issued, store, closed, accepted, calls,
                   dropped, finalFlushBy, dbCloseRes>>

\* close(p.stopCh), then the final Flush
StopCloseCh(t) ==
    /\ pc[t] = "close_ch"
    /\ stopChCloses' = stopChCloses + 1
    /\ pc' = [pc EXCEPT ![t] = "flush_lock"]
    /\ UNCHANGED <<dbVars, hostVars, callers, hasStorage, bufferSize,
                   flushInterval, buffer, stopped, mu, entry, toFlush,
                   flushRet, stopRet, closeRet, writers, issued, store,
                   closed, accepted, calls, dropped, finalFlushBy, dbCloseRes>>

\* Close after Stop: the Stop error is logged; the store is closed if there
\* is one, and the result of closing it is what Close returns
Close(t) ==
    /\ pc[t] = "close_store"
    /\ IF hasStorage
       THEN /\ closed' = TRUE
            /\ \E r \in {"nil", "err"} :
                  /\ dbCloseRes' = [dbCloseRes EXCEPT ![t] = r]
                  /\ closeRet' = [closeRet EXCEPT ![t] =
                                    CloseResult(stopRet[t], r)]
       ELSE /\ closeRet' = [closeRet EXCEPT ![t] = "nil"]
            /\ UNCHANGED <<closed, dbCloseRes>>
    /\ pc' = [pc EXCEPT ![t] = "done"]
    /\ UNCHANGED <<dbVars, hostVars, callers, hasStorage, bufferSize,
                   flushInterval, buffer, stopped, mu, stopChCloses, entry,
                   toFlush, flushRet, stopRet, writers, issued, store,
                   accepted, calls, dropped, finalFlushBy>>

\* ---------------------------------------------------------------- Next
Next ==
    \/ \E h \in Submitters : HandleUsageCall(h)
    \/ \E h \in Submitters : HandleUsageLock(h)
    \/ \E h \in Submitters : HandleUsageFinish(h)
    \/ TimerTick
    \/ TimerFlush
    \/ TimerExit
    \/ \E w \in 1..MaxEvents : WriterBegin(w)
    \/ \E w \in 1..MaxEvents : WriterEnd(w)
    \/ \E t \in Flushers \cup Stoppers : FlushLock(t)
    \/ \E t \in Flushers \cup Stoppers : FlushInsertEnd(t)
    \/ \E t \in Stoppers, e \in Entries : Stop(t, e)
    \/ \E t \in Stoppers : StopCloseCh(t)
    \/ \E t \in Stoppers : Close(t)

Spec == Init /\ [][Next]_vars

\* a started goroutine keeps running: every detached writer gets to call
\* InsertBatch and every InsertBatch call returns (it runs under a deadline)
FairSpec ==
    /\ InitLive
    /\ [][Next]_vars
    /\ \A w \in 1..MaxEvents : WF_vars(WriterBegin(w)) /\ WF_vars(WriterEnd(w))

\* the plugin with every goroutine and every call going on: a call that
\* waits for the mutex gets it, Stop goes on to close the stop channel and
\* to its final Flush, InsertBatch returns, and the timer's select, which
\* picks at random among the ready cases, takes the closed stop channel
FairStopSpec ==
    /\ FairSpec
    /\ \A h \in Submitters : WF_vars(HandleUsageFinish(h))
    /\ \A t \in Stoppers : /\ WF_vars(StopCloseCh(t))
                           /\ SF_vars(FlushLock(t))
                           /\ WF_vars(FlushInsertEnd(t))
    /\ SF_vars(TimerFlush)
    /\ SF_vars(TimerExit)

\* the context a submitter passes to HandleUsage (that of its request) is
\* cancelled or expires, while the call runs or after it has returned
CancelContext(h) ==
    /\ h \in callers
    /\ h \notin cancelled
    /\ cancelled' = cancelled \cup {h}
    /\ UNCHANGED <<pluginVars, dbVars, globalStorage, initialized,
                   globalPersistencePlugin, plugins, cleanupJob, request, now>>

\* the plugin under two submitters, the timer and one shutdown, with the
\* submitters' contexts cancelled at any time
ContextNext ==
    \/ Next
    \/ \E h \in Submitters : CancelContext(h)

ContextSpec == InitLive /\ [][ContextNext]_vars

\* ---------------------------------------------------------------- time
\* A time.Time is an instant and a location. The instant is modelled by the
\* whole second it falls in, counted from 2025-01-01 00:00:00 UTC, and by
\* its fraction of that second, in halves; the location by its offset east
\* of UTC, in seconds. Time(sec, frac) is the time in UTC
Time(sec, frac) == [sec |-> sec, frac |-> frac, zone |-> 0]

\* t.In(loc): the same instant in the location with the given offset
In(t, offset) == [t EXCEPT !.zone = offset]

\* time.Time{}: the zero time, long before every time of the year
ZeroTime == Time(-1, 0)

\* t.IsZero()
IsZero(t) == t = ZeroTime

\* t.Before(u)
Before(t, u) == t.sec < u.sec \/ (t.sec = u.sec /\ t.frac < u.frac)

\* t.Format("2006-01-02 15:04:05"): the text of t's wall-clock second in
\* t's own location, the fraction of the second and the offset dropped. A
\* text is modelled by the number of the second it names, which orders
\* texts as SQLite's text comparison does
Format(t) == t.sec + t.zone

\* time.Parse("2006-01-02 15:04:05", text): the text read as a time in UTC
Parse(text) == Time(text, 0)

\* the day of the year (0 is January 1) of a timestamp text
DayOfYear(text) == text \div 86400

\* the day of the week (0 is Monday) of a day of 2025; January 1 is a
\* Wednesday
Weekday(yday) == (yday + 2) % 7

\* the day of the year on which each month of 2025 begins
MonthFirstDay == <<0, 31, 59, 90, 120, 151, 181, 212, 243, 273, 304, 334>>

\* the month (1..12) of a day of the year
MonthOf(yday) ==
    CHOOSE m \in 1..12 :
        /\ MonthFirstDay[m] <= yday
        /\ m = 12 \/ yday < MonthFirstDay[m + 1]

\* GetTimeseries: the strftime format of an interval (hourly by default)
timeFormat(interval) ==
    CASE interval = "hour" -> "%Y-%m-%d %H:00:00"
      [] interval = "day" -> "%Y-%m-%d 00:00:00"
      [] interval = "week" -> "%Y-W%W"
      [] interval = "month" -> "%Y-%m-01 00:00:00"
      [] OTHER -> "%Y-%m-%d %H:00:00"

\* SQLite's strftime(format, timestamp). The three timestamp-shaped formats
\* give the text of the first second of the hour, day or month; "%Y-W%W"
\* gives the year and the week of the year (00..53, weeks begin on Monday,
\* the days before the first Monday are week 00), modelled by the week number
strftime(format, text) ==
    CASE format = "%Y-%m-%d %H:00:00" -> text - (text % 3600)
      [] format = "%Y-%m-%d 00:00:00" -> text - (text % 86400)
      [] format = "%Y-%m-01 00:00:00" ->
             MonthFirstDay[MonthOf(DayOfYear(text))] * 86400
      [] format = "%Y-W%W" ->
             (DayOfYear(text) + 7 - Weekday(DayOfYear(text))) \div 7

\* time.Parse("2006-W02", bucket), its error dropped: "02" is the layout of
\* the day of the month, so the week number is read as a day of January, and
\* a number that is no day of January is an error, which leaves the zero time
ParseWeekBucket(bucket) ==
    IF bucket \in 1..31 THEN Time((bucket - 1) * 86400, 0) ELSE ZeroTime

\* GetTimeseries: the BucketStart parsed from the bucket text
BucketStart(interval, bucket) ==
    IF interval = "week" THEN ParseWeekBucket(bucket) ELSE Parse(bucket)

\* ---------------------------------------------------------------- records
\* the models of the usage records of a run
Models == {"gpt-4", "claude-3-opus"}

\* the provider that serves a model
ProviderOf(model) == IF model = "gpt-4" THEN "openai" ELSE "anthropic"

\* the API key the requests for a model are made with
APIKeyOf(model) == IF model = "gpt-4" THEN "key-1" ELSE "key-2"

\* the event times of the usage records of a run: two in the same second,
\* one later in the next hour, one on February 1
EventTimes ==
    {Time(10, 0), Time(10, 1), Time(3700, 0), Time(31 * 86400 + 5, 0)}

\* the total token counts of the usage records of a run
TokenCounts == {100, 200}

\* UsageRecord: the fields the store's operations read
UsageRecords ==
    {[Timestamp |-> t, Provider |-> ProviderOf(m), Model |-> m,
      APIKey |-> APIKeyOf(m), TotalTokens |-> k, Failed |-> f] :
        t \in EventTimes, m \in Models, k \in TokenCounts, f \in BOOLEAN}

\* the row an INSERT makes of a record: the timestamp column holds the
\* formatted text; column record is no column of the table: it keeps the
\* record as it was passed, for the properties to refer to
Row(record) ==
    [timestamp    |-> Format(record.Timestamp),
     provider     |-> record.Provider,
     model        |-> record.Model,
     api_key      |-> record.APIKey,
     total_tokens |-> record.TotalTokens,
     failed       |-> IF record.Failed THEN 1 ELSE 0,
     record       |-> record]

\* ---------------------------------------------------------------- SQL
\* the rows of a bag that satisfy P (a WHERE clause)
Where(rows, P(_)) == [r \in {x \in BagToSet(rows) : P(x)} |-> rows[r]]

\* COUNT(*)
Count(rows) == BagCardinality(rows)

\* the sum of a column over the rows of a bag
RECURSIVE SumRows(_, _)
SumRows(rows, col) ==
    IF BagToSet(rows) = {}
    THEN 0
    ELSE LET r == CHOOSE x \in BagToSet(rows) : TRUE
         IN rows[r] * r[col]
              + SumRows([x \in BagToSet(rows) \ {r} |-> rows[x]], col)

\* SQL NULL, and a value that is not NULL
NULL == [null |-> TRUE]
NotNull(v) == [null |-> FALSE, v |-> v]

\* SUM(col): NULL over no rows
SUM(rows, col) ==
    IF Count(rows) = 0 THEN NULL ELSE NotNull(SumRows(rows, col))

\* SUM(CASE WHEN col = val THEN 1 ELSE 0 END): NULL over no rows
SumCase(rows, col, val) ==
    IF Count(rows) = 0
    THEN NULL
    ELSE LET Is(r) == r[col] = val IN NotNull(Count(Where(rows, Is)))

\* COALESCE(x, d)
COALESCE(x, d) == IF x.null THEN d ELSE x.v

\* WHERE timestamp >= ? AND timestamp <= ?, on the formatted bounds
InWindow(rows, from, to) ==
    LET fromStr == Format(from)
        toStr == Format(to)
        Is(r) == r.timestamp >= fromStr /\ r.timestamp <= toStr
    IN Where(rows, Is)

\* the orders in which a bag of rows can be returned under ORDER BY: every
\* sequence of the rows in which no row comes before Le-smaller one; rows
\* that tie come in any order
Orderings(rows, Le(_, _)) ==
    {s \in [1..Count(rows) -> BagToSet(rows)] :
        /\ \A r \in BagToSet(rows) :
              Cardinality({i \in 1..Count(rows) : s[i] = r}) = rows[r]
        /\ \A i, j \in 1..Count(rows) : i < j => Le(s[i], s[j])}

\* the first n elements of a sequence (LIMIT n)
Limit(s, n) == SubSeq(s, 1, IF n < Len(s) THEN n ELSE Len(s))

\* ---------------------------------------------------------------- reads
\* GetRecordCount: SELECT COUNT(*) FROM usage_records
GetRecordCount(rows) == Count(rows)

\* GetTotals that leaves the upper bound of the window out
GetTotalsExclusive(rows, from, to) ==
    LET Is(r) == r.timestamp >= Format(from) /\ r.timestamp < Format(to)
        w == Where(rows, Is)
    IN [Requests        |-> Count(w),
        Tokens          |-> COALESCE(SUM(w, "total_tokens"), 0),
        FailedRequests  |-> COALESCE(SumCase(w, "failed", 1), 0),
        SuccessRequests |-> COALESCE(SumCase(w, "failed", 0), 0)]

\* GetTotals: one row of aggregates over the window. Of the token columns
\* only total_tokens is modelled; the others are summed by the same clause
GetTotals(rows, from, to) ==
    LET w == InWindow(rows, from, to)
    IN [Requests        |-> Count(w),
        Tokens          |-> COALESCE(SUM(w, "total_tokens"), 0),
        FailedRequests  |-> COALESCE(SumCase(w, "failed", 1), 0),
        SuccessRequests |-> COALESCE(SumCase(w, "failed", 0), 0)]

\* GROUP BY model over the window: one ModelMetrics per model
ModelGroups(rows, from, to) ==
    LET w == InWindow(rows, from, to)
    IN {LET Is(r) == r.model = m
            g == Where(w, Is)
        IN [Model          |-> m,
            Requests       |-> Count(g),
            Tokens         |-> COALESCE(SUM(g, "total_tokens"), 0),
            FailedRequests |-> COALESCE(SumCase(g, "failed", 1), 0)] :
          m \in {r.model : r \in BagToSet(w)}}

\* GetByModel that orders by total tokens ascending
GetByModelAscending(rows, from, to) ==
    LET Asc(a, b) == a.Tokens <= b.Tokens
    IN Orderings(SetToBag(ModelGroups(rows, from, to)), Asc)

\* GetByModel: the results it can return: the groups ORDER BY total_tokens
\* DESC
GetByModel(rows, from, to) ==
    LET Desc(a, b) == a.Tokens >= b.Tokens
    IN Orderings(SetToBag(ModelGroups(rows, from, to)), Desc)

\* the elements of a set of numbers in ascending order
Ascending(S) ==
    CHOOSE s \in [1..Cardinality(S) -> S] :
        \A i, j \in 1..Cardinality(S) : i < j => s[i] < s[j]

\* GetTimeseries that truncates every timestamp to the hour
GetTimeseriesHourly(rows, from, to, interval) ==
    LET w == InWindow(rows, from, to)
        Bucket(r) == strftime("%Y-%m-%d %H:00:00", r.timestamp)
        buckets == Ascending({Bucket(r) : r \in BagToSet(w)})
    IN [i \in 1..Len(buckets) |->
          LET Is(r) == Bucket(r) = buckets[i]
              g == Where(w, Is)
          IN [BucketStart    |-> BucketStart(interval, buckets[i]),
              Requests       |-> Count(g),
              Tokens         |-> COALESCE(SUM(g, "total_tokens"), 0),
              FailedRequests |-> COALESCE(SumCase(g, "failed", 1), 0)]]

\* GetTimeseries: GROUP BY strftime(format, timestamp) over the window,
\* ORDER BY bucket ASC; each bucket text is parsed into the BucketStart
GetTimeseries(rows, from, to, interval) ==
    LET w == InWindow(rows, from, to)
        Bucket(r) == strftime(timeFormat(interval), r.timestamp)
        buckets == Ascending({Bucket(r) : r \in BagToSet(w)})
    IN [i \in 1..Len(buckets) |->
          LET Is(r) == Bucket(r) = buckets[i]
              g == Where(w, Is)
          IN [BucketStart    |-> BucketStart(interval, buckets[i]),
              Requests       |-> Count(g),
              Tokens         |-> COALESCE(SUM(g, "total_tokens"), 0),
              FailedRequests |-> COALESCE(SumCase(g, "failed", 1), 0)]]

\* Cleanup that also deletes the rows at olderThan itself
CleanupInclusive(rows, olderThan) ==
    LET Old(r) == r.timestamp <= Format(olderThan)
        Kept(r) == ~Old(r)
    IN [rows |-> Where(rows, Kept), deleted |-> Count(Where(rows, Old))]

\* Cleanup: DELETE FROM usage_records WHERE timestamp < ?; the rows left
\* and RowsAffected
Cleanup(rows, olderThan) ==
    LET olderThanStr == Format(olderThan)
        Old(r) == r.timestamp < olderThanStr
        Kept(r) == ~Old(r)
    IN [rows |-> Where(rows, Kept), deleted |-> Count(Where(rows, Old))]

\* rows.Scan: the UsageRecord read back from a row
Scan(r) ==
    [Timestamp   |-> Parse(r.timestamp),
     Provider    |-> r.provider,
     Model       |-> r.model,
     APIKey      |-> r.api_key,
     TotalTokens |-> r.total_tokens,
     Failed      |-> r.failed = 1]

\* Query: the WHERE clause built from the filter. A pointer field (From, To,
\* Failed) is a set: empty for nil, else holding the value pointed to
QueryWhere(rows, filter) ==
    LET Is(r) ==
          /\ \A f \in filter.From : ~IsZero(f) => r.timestamp >= Format(f)
          /\ \A t \in filter.To : ~IsZero(t) => r.timestamp <= Format(t)
          /\ filter.Provider # "" => r.provider = filter.Provider
          /\ filter.Model # "" => r.model = filter.Model
          /\ filter.APIKey # "" => r.api_key = filter.APIKey
          /\ \A b \in filter.Failed : r.failed = (IF b THEN 1 ELSE 0)
    IN Where(rows, Is)

\* Query that orders the rows oldest first
QueryOldestFirst(rows, filter) ==
    LET Asc(a, b) == a.timestamp <= b.timestamp
    IN {LET s == [i \in DOMAIN o |-> Scan(o[i])]
        IN IF filter.Limit > 0 THEN Limit(s, filter.Limit) ELSE s :
          o \in Orderings(QueryWhere(rows, filter), Asc)}

\* Query: the results it can return: the matching rows ORDER BY timestamp
\* DESC, cut to the first Limit when Limit > 0
Query(rows, filter) ==
    LET Desc(a, b) == a.timestamp >= b.timestamp
    IN {LET s == [i \in DOMAIN o |-> Scan(o[i])]
        IN IF filter.Limit > 0 THEN Limit(s, filter.Limit) ELSE s :
          o \in Orderings(QueryWhere(rows, filter), Desc)}

\* ---------------------------------------------------------------- store calls
\* the times passed as from: the start of the year, and the second half
\* of the second of the first records
FromTimes == {Time(0, 0), Time(10, 1)}

\* the times passed as to: the first half of the second of the first
\* records, a time in the second hour, and the last second of the year
ToTimes == {Time(10, 0), Time(4000, 0), Time(365 * 86400 - 1, 0)}

\* the times passed as olderThan: those, and the second half of the second
\* of the record of the second hour
CutoffTimes == FromTimes \cup ToTimes \cup {Time(3700, 1)}

\* the intervals GetTimeseries is called with
Intervals == {"hour", "day", "week", "month"}

\* the number of conditions a filter sets
Conditions(filter) ==
    Cardinality(filter.From) + Cardinality(filter.To)
      + Cardinality(filter.Failed)
      + Cardinality({filter.Provider, filter.Model, filter.APIKey} \ {""})

\* the filters Query is called with: those that set at most two conditions
QueryFilters ==
    {filter \in [From     : {{}, {Time(10, 1)}},
                 To       : {{}, {Time(10, 0)}},
                 Provider : {"", "anthropic"},
                 Model    : {"", "gpt-4"},
                 APIKey   : {"", "key-1"},
                 Failed   : {{}, {TRUE}, {FALSE}},
                 Limit    : {0, 1}] : Conditions(filter) <= 2}

\* the store's client makes one call at a time: a call starts when the
\* result of the previous one has been taken (and the plugin's callers are
\* out of the run)
StoreOnly == callers = {} /\ ret = NoRet

\* the client takes the result of its last call
TakeResult ==
    /\ callers = {}
    /\ ret # NoRet
    /\ ret' = NoRet
    /\ UNCHANGED <<pluginVars, hostVars, stored, tx>>

\* the largest of a set of ids, 0 for none
MaxId(S) == IF S = {} THEN 0 ELSE CHOOSE i \in S : \A j \in S : j <= i

\* the id of a new row were column id a plain INTEGER PRIMARY KEY: one more
\* than the largest id in the table
NextRowid(rowids, seq) == MaxId(DOMAIN rowids) + 1

\* id INTEGER PRIMARY KEY AUTOINCREMENT: the id of a new row is one more
\* than the largest id the table has ever held, which sqlite_sequence keeps
AutoIncrement(rowids, seq) ==
    IF seq > MaxId(DOMAIN rowids) THEN seq + 1 ELSE MaxId(DOMAIN rowids) + 1

\* an INSERT OR REPLACE that supplies the largest id in use: it overwrites
\* that row
InsertIdReplacing(rowids, seq, row) ==
    LET id == IF seq = 0 THEN 1 ELSE seq
    IN [ids |-> [i \in DOMAIN rowids \cup {id} |->
                    IF i = id THEN row ELSE rowids[i]],
        seq |-> id]

\* the id column after the INSERT of a row
InsertId(rowids, seq, row) ==
    LET id == AutoIncrement(rowids, seq)
    IN [ids |-> [i \in DOMAIN rowids \cup {id} |->
                    IF i = id THEN row ELSE rowids[i]],
        seq |-> id]

\* the id column after DELETE FROM usage_records WHERE timestamp < ?
DeleteIds(rowids, olderThan) ==
    [i \in {j \in DOMAIN rowids : ~(rowids[j].timestamp < Format(olderThan))}
       |-> rowids[i]]

\* Insert: one INSERT statement, which adds the row or fails
Insert(record) ==
    /\ StoreOnly
    /\ tx = NoTx
    /\ sqlite_sequence < MaxRows
    /\ \E ok \in BOOLEAN :
          /\ usage_records' = IF ok
                              THEN usage_records (+) SetToBag({Row(record)})
                              ELSE usage_records
          /\ ids' = IF ok
                    THEN InsertId(ids, sqlite_sequence, Row(record)).ids
                    ELSE ids
          /\ sqlite_sequence' =
                IF ok
                THEN InsertId(ids, sqlite_sequence, Row(record)).seq
                ELSE sqlite_sequence
          /\ ret' = [op |-> "Insert", err |-> InsertBatchErr(ok)]
    /\ UNCHANGED <<pluginVars, hostVars, tx, schema>>

\* Cleanup called: the rows are deleted and the number deleted is returned
CleanupCall(olderThan) ==
    /\ StoreOnly
    /\ tx = NoTx
    /\ usage_records' = Cleanup(usage_records, olderThan).rows
    /\ ret' = [op        |-> "Cleanup",
               olderThan |-> olderThan,
               before    |-> usage_records,
               deleted   |-> Cleanup(usage_records, olderThan).deleted]
    /\ ids' = DeleteIds(ids, olderThan)
    /\ UNCHANGED <<pluginVars, hostVars, tx, sqlite_sequence, schema>>

\* the number of rows written so far in the open transaction
Uncommitted ==
    IF tx.st \in {"prepare", "exec", "commit"}
    THEN BagCardinality(tx.staged)
    ELSE 0

\* GetRecordCount called. (Every read notes in field uncommitted the
\* number of rows that were written in the open transaction at the time.)
GetRecordCountCall ==
    /\ StoreOnly
    /\ ret' = [op |-> "GetRecordCount", uncommitted |-> Uncommitted,
               value |-> GetRecordCount(usage_records)]
    /\ UNCHANGED <<pluginVars, hostVars, stored, tx>>

\* GetTotals called
GetTotalsCall(from, to) ==
    /\ StoreOnly
    /\ ret' = [op |-> "GetTotals", uncommitted |-> Uncommitted,
               from |-> from, to |-> to,
               value |-> GetTotals(usage_records, from, to)]
    /\ UNCHANGED <<pluginVars, hostVars, stored, tx>>

\* GetByModel called
GetByModelCall(from, to) ==
    /\ StoreOnly
    /\ \E metrics \in GetByModel(usage_records, from, to) :
          ret' = [op |-> "GetByModel", uncommitted |-> Uncommitted,
                  from |-> from, to |-> to, value |-> metrics]
    /\ UNCHANGED <<pluginVars, hostVars, stored, tx>>

\* GetTimeseries called
GetTimeseriesCall(from, to, interval) ==
    /\ StoreOnly
    /\ ret' = [op |-> "GetTimeseries", uncommitted |-> Uncommitted,
               from |-> from, to |-> to, interval |-> interval,
               value |-> GetTimeseries(usage_records, from, to, interval)]
    /\ UNCHANGED <<pluginVars, hostVars, stored, tx>>

\* Query called
QueryCall(filter) ==
    /\ StoreOnly
    /\ \E records \in Query(usage_records, filter) :
          ret' = [op |-> "Query", uncommitted |-> Uncommitted,
                  filter |-> filter, value |-> records]
    /\ UNCHANGED <<pluginVars, hostVars, stored, tx>>

\* a store on its own: the plugin is constructed and makes no call
StoreInit ==
    /\ InitPlugin
    /\ hasStorage
    /\ bufferSize = DefaultBufferSize
    /\ callers = {}
    /\ InitDB
    /\ InitHost

\* the store under single-statement writes, reads and maintenance
QueryNext ==
    \/ \E record \in UsageRecords : Insert(record)
    \/ \E olderThan \in CutoffTimes : CleanupCall(olderThan)
    \/ GetRecordCountCall
    \/ \E from \in FromTimes, to \in ToTimes : GetTotalsCall(from, to)
    \/ \E from \in FromTimes, to \in ToTimes : GetByModelCall(from, to)
    \/ \E from \in FromTimes, to \in ToTimes, interval \in Intervals :
          GetTimeseriesCall(from, to, interval)
    \/ \E filter \in QueryFilters : QueryCall(filter)
    \/ TakeResult

QuerySpec == StoreInit /\ [][QueryNext]_vars

\* ---------------------------------------------------------------- InsertBatch
\* the records InsertBatch is called with
BatchRecords ==
    {rec \in UsageRecords :
        rec.Timestamp = Time(10, 0) /\ rec.TotalTokens = 100 /\ ~rec.Failed}

\* the batches InsertBatch is called with, the empty one among them
Batches == UNION {[1..n -> BatchRecords] : n \in 0..MaxBatch}

\* the rows of a batch
RowsOf(records) ==
    [r \in {Row(records[i]) : i \in DOMAIN records} |->
        Cardinality({i \in DOMAIN records : Row(records[i]) = r})]

\* stmt.ExecContext run on the database itself instead of in the transaction
ExecAutocommit(rows, staged, record) ==
    [rows |-> rows (+) SetToBag({Row(record)}), staged |-> staged]

\* stmt.ExecContext inside the transaction: the row is written in the
\* transaction and the table other connections read is unchanged
Exec(rows, staged, record) ==
    [rows |-> rows, staged |-> staged (+) SetToBag({Row(record)})]

\* a Rollback that keeps the rows written so far
RollbackKeeps(rows, staged) == rows (+) staged

\* the deferred tx.Rollback() of a transaction that was not committed (also
\* the rollback of a transaction whose context expired): its rows are dropped
Rollback(rows, staged) == rows

\* tx.Commit(): the rows of the transaction become rows of the table
Commit(rows, staged) == rows (+) staged

\* InsertBatch has returned err for the batch it was called with, after
\* writing the given rows in its transaction
Returned(records, before, err, staged) ==
    [st |-> "returned", records |-> records, before |-> before, err |-> err,
     written |-> BagCardinality(staged)]

\* InsertBatch called: an empty batch returns nil at once; else BeginTx,
\* which opens the transaction or fails
InsertBatchBeginTx(records) ==
    /\ StoreOnly
    /\ tx.st \in {"idle", "returned"}
    /\ sqlite_sequence < MaxRows
    /\ IF Len(records) = 0
       THEN tx' = Returned(records, usage_records, "nil", EmptyBag)
       ELSE \E ok \in BOOLEAN :
               tx' = IF ok
                     THEN [st |-> "prepare", records |-> records, i |-> 1,
                           staged |-> EmptyBag, before |-> usage_records,
                           ids |-> ids, seq |-> sqlite_sequence]
                     ELSE Returned(records, usage_records, "err", EmptyBag)
    /\ UNCHANGED <<pluginVars, hostVars, stored, ret>>

\* tx.PrepareContext: on an error InsertBatch returns and the deferred
\* Rollback runs
InsertBatchPrepare ==
    /\ tx.st = "prepare"
    /\ \E ok \in BOOLEAN :
          IF ok
          THEN /\ tx' = [tx EXCEPT !.st = "exec"]
               /\ UNCHANGED usage_records
          ELSE /\ tx' = Returned(tx.records, tx.before, "err", tx.staged)
               /\ usage_records' = Rollback(usage_records, tx.staged)
    /\ UNCHANGED <<pluginVars, hostVars, ret, ids, sqlite_sequence, schema>>

\* one turn of the loop: stmt.ExecContext for the next record; on an error
\* (also an expired deadline) InsertBatch returns and the deferred Rollback
\* runs
InsertBatchExec ==
    /\ tx.st = "exec"
    /\ \E ok \in BOOLEAN :
          IF ok
          THEN LET e == Exec(usage_records, tx.staged, tx.records[tx.i])
                   n == InsertId(tx.ids, tx.seq, Row(tx.records[tx.i]))
               IN /\ usage_records' = e.rows
                  /\ tx' = [tx EXCEPT
                              !.staged = e.staged,
                              !.ids = n.ids,
                              !.seq = n.seq,
                              !.i = tx.i + 1,
                              !.st = IF tx.i = Len(tx.records)
                                     THEN "commit" ELSE "exec"]
          ELSE /\ tx' = Returned(tx.records, tx.before, "err", tx.staged)
               /\ usage_records' = Rollback(usage_records, tx.staged)
    /\ UNCHANGED <<pluginVars, hostVars, ret, ids, sqlite_sequence, schema>>

\* tx.Commit(): the rows become visible and InsertBatch returns nil, or the
\* commit fails, the rows are dropped and InsertBatch returns the error
InsertBatchCommit ==
    /\ tx.st = "commit"
    /\ \E ok \in BOOLEAN :
          IF ok
          THEN /\ usage_records' = Commit(usage_records, tx.staged)
               /\ ids' = tx.ids
               /\ sqlite_sequence' = tx.seq
               /\ tx' = Returned(tx.records, tx.before, "nil", tx.staged)
          ELSE /\ usage_records' = Rollback(usage_records, tx.staged)
               /\ UNCHANGED <<ids, sqlite_sequence>>
               /\ tx' = Returned(tx.records, tx.before, "err", tx.staged)
    /\ UNCHANGED <<pluginVars, hostVars, ret, schema>>

\* the window of the reads made next to InsertBatch: the whole year
YearStart == Time(0, 0)
YearEnd == Time(365 * 86400 - 1, 0)

\* the filter of the reads made next to InsertBatch: no condition
NoFilter ==
    [From |-> {}, To |-> {}, Provider |-> "", Model |-> "", APIKey |-> "",
     Failed |-> {}, Limit |-> 0]

\* the store under InsertBatch calls and the reads of another client
TxNext ==
    \/ \E records \in Batches : InsertBatchBeginTx(records)
    \/ InsertBatchPrepare
    \/ InsertBatchExec
    \/ InsertBatchCommit
    \/ GetRecordCountCall
    \/ GetTotalsCall(YearStart, YearEnd)
    \/ GetByModelCall(YearStart, YearEnd)
    \/ GetTimeseriesCall(YearStart, YearEnd, "day")
    \/ QueryCall(NoFilter)
    \/ TakeResult

TxSpec == StoreInit /\ [][TxNext]_vars

\* ---------------------------------------------------------------- the store
\* Aggregate: GetTotals and GetByModel over the query's window; the results
\* it can return
Aggregate(rows, query) ==
    {[Totals |-> GetTotals(rows, query.From, query.To), ByModel |-> m] :
        m \in GetByModel(rows, query.From, query.To)}

\* Aggregate called
AggregateCall(query) ==
    /\ StoreOnly
    /\ \E result \in Aggregate(usage_records, query) :
          ret' = [op |-> "Aggregate", uncommitted |-> Uncommitted,
                  query |-> query, value |-> result]
    /\ UNCHANGED <<pluginVars, hostVars, stored, tx>>

\* the caller of InsertBatch goes on with what it returned
InsertBatchReturn ==
    /\ tx.st = "returned"
    /\ tx' = NoTx
    /\ UNCHANGED <<pluginVars, hostVars, stored, ret>>

\* where an I/O fault can hit NewSQLiteStorage: nowhere, in sql.Open, in
\* one of the two PRAGMAs, or in a statement of the schema script
OpenFaults ==
    {[at |-> a, stmt |-> 0] :
        a \in {"none", "sql.Open", "journal_mode", "foreign_keys"}}
       \cup {[at |-> "schema", stmt |-> i] : i \in 1..Len(schemaSQL)}

\* NewSQLiteStorage on the file of the store: sql.Open, the two PRAGMAs and
\* db.Exec(schemaSQL); an error of any of them closes the db and is the
\* error returned
NewSQLiteStorage(fault) ==
    /\ StoreOnly
    /\ tx = NoTx
    /\ LET r == IF fault.at \in {"sql.Open", "journal_mode", "foreign_keys"}
                THEN [schema |-> schema, err |-> "err"]
                ELSE ExecSchema(schema, fault.stmt)
       IN /\ schema' = r.schema
          /\ ret' = [op |-> "NewSQLiteStorage", fault |-> fault,
                     err |-> r.err, before |-> <<usage_records, ids>>]
    /\ UNCHANGED <<pluginVars, hostVars, usage_records, ids, sqlite_sequence,
                   tx>>

\* the records of the single-row inserts: two event times, so that a
\* Cleanup can delete some rows and keep others
InsertRecords ==
    {rec \in UsageRecords :
        /\ rec.Timestamp \in {Time(10, 0), Time(3700, 0)}
        /\ rec.Model = "gpt-4" /\ rec.TotalTokens = 100 /\ ~rec.Failed}

\* the olderThan of the Cleanup calls: between the two event times, and
\* after both
SweepTimes == {Time(3700, 0), Time(4000, 0)}

\* the window of the Aggregate calls
YearQuery ==
    [From |-> YearStart, To |-> YearEnd, Interval |-> "day",
     GroupBy |-> <<"model", "api_key", "provider">>]

\* the store under every operation of the Storage interface, and reopened
StoreNext ==
    \/ \E record \in InsertRecords : Insert(record)
    \/ \E records \in Batches : InsertBatchBeginTx(records)
    \/ InsertBatchPrepare
    \/ InsertBatchExec
    \/ InsertBatchCommit
    \/ InsertBatchReturn
    \/ \E olderThan \in SweepTimes : CleanupCall(olderThan)
    \/ GetRecordCountCall
    \/ GetTotalsCall(YearStart, YearEnd)
    \/ GetByModelCall(YearStart, YearEnd)
    \/ GetTimeseriesCall(YearStart, YearEnd, "day")
    \/ QueryCall(NoFilter)
    \/ AggregateCall(YearQuery)
    \/ \E fault \in OpenFaults : NewSQLiteStorage(fault)
    \/ TakeResult

StoreSpec == StoreInit /\ [][StoreNext]_vars

\* ---------------------------------------------------------------- locations
\* the offsets of the locations tried: UTC and two hours east of it
Zones == {0, 7200}

\* the event times and cutoffs tried in every location: the two halves of
\* one second, an hour later and two hours later
ZonedTimes ==
    {In(Time(s, f), z) :
        s \in {10, 3610, 7210}, f \in {0, 1}, z \in Zones}

\* the records inserted with those event times
ZonedRecords ==
    {[Timestamp |-> t, Provider |-> ProviderOf("gpt-4"), Model |-> "gpt-4",
      APIKey |-> APIKeyOf("gpt-4"), TotalTokens |-> 100, Failed |-> FALSE] :
        t \in ZonedTimes}

\* the store under Insert and Cleanup with event times and cutoffs in more
\* than one location
ZoneNext ==
    \/ \E record \in ZonedRecords : Insert(record)
    \/ \E olderThan \in ZonedTimes : CleanupCall(olderThan)
    \/ TakeResult

ZoneSpec == StoreInit /\ [][ZoneNext]_vars

\* ---------------------------------------------------------------- Initialize
\* the values of cfg.Persistence tried
Configs ==
    [Enabled       : BOOLEAN,
     Type          : {"sqlite", "", "json", "redis"},
     Path          : {"", "./data/usage.db", "u"},
     BufferSize    : {0, MaxBufferSize},
     FlushInterval : {<<"5", "s">>},
     RetentionDays : {-1, 0, 1, 30}]

\* len(path) of the paths tried
PathLen(path) ==
    CASE path = "" -> 0
      [] path = "u" -> 1
      [] OTHER -> 15

\* where an I/O fault can hit initSQLite: in os.MkdirAll or in
\* NewSQLiteStorage
InitFaults == OpenFaults \cup {[at |-> "os.MkdirAll", stmt |-> 0]}

\* initSQLite: the default path for an empty one, path[:2] (which panics
\* with a path of one character), the directory, NewSQLiteStorage
initSQLite(sch, path, fault) ==
    LET p == IF path = "" THEN "./data/usage.db" ELSE path
    IN IF PathLen(p) < 2
       THEN [schema |-> sch, err |-> "panic"]
       ELSE IF fault.at \in {"os.MkdirAll", "sql.Open", "journal_mode",
                             "foreign_keys"}
       THEN [schema |-> sch, err |-> "err"]
       ELSE ExecSchema(sch, fault.stmt)

\* Initialize that starts the cleanup job whatever the retention is
StartsCleanupJobAlways(cfg) == TRUE

\* Initialize starts the cleanup job if retention is configured
StartsCleanupJob(cfg) == cfg.RetentionDays > 0

\* Initialize's flush interval: time.ParseDuration of the configured text,
\* the default if that fails
flushIntervalOf(cfg) ==
    LET r == ParseDuration(cfg.FlushInterval)
    IN IF r.err # "nil" THEN DefaultFlushInterval ELSE r.d

\* Initialize's buffer size: the configured one, the default if that is not
\* positive
bufferSizeOf(cfg) ==
    IF cfg.BufferSize <= 0 THEN DefaultBufferSize ELSE cfg.BufferSize

\* Initialize that sets the globals and registers the plugin before it
\* looks at the error of the storage backend
InitializeEager(cfg, storageErr) ==
    [err      |-> IF ~cfg.Enabled THEN "nil"
                  ELSE IF cfg.Type \notin {"sqlite", ""} THEN "err"
                  ELSE storageErr,
     storage  |-> IF cfg.Enabled THEN "sqlite" ELSE "nil",
     plugin   |-> IF cfg.Enabled THEN "plugin" ELSE "nil",
     bufferSize    |-> bufferSizeOf(cfg),
     flushInterval |-> flushIntervalOf(cfg),
     register |-> cfg.Enabled,
     job      |-> cfg.Enabled /\ StartsCleanupJob(cfg)]

\* Initialize, given what initSQLite returns: what it returns and what it
\* sets up
Initialize(cfg, storageErr) ==
    LET done == cfg.Enabled /\ cfg.Type \in {"sqlite", ""}
                   /\ storageErr = "nil"
    IN [err      |-> IF ~cfg.Enabled THEN "nil"
                     ELSE IF cfg.Type \notin {"sqlite", ""} THEN "err"
                     ELSE storageErr,
        storage  |-> IF done THEN "sqlite" ELSE "nil",
        plugin   |-> IF done THEN "plugin" ELSE "nil",
        bufferSize    |-> bufferSizeOf(cfg),
        flushInterval |-> flushIntervalOf(cfg),
        register |-> done,
        job      |-> done /\ StartsCleanupJob(cfg)]

\* the period of the cleanup job's ticker: 24 hours, in seconds
Day == 86400

\* t.Add(d) for a duration d of whole seconds
Add(t, d) == [t EXCEPT !.sec = t.sec + d]

\* t.AddDate(0, 0, days)
AddDate(t, years, months, days) == [t EXCEPT !.sec = t.sec + days * Day]

\* time.NewTicker(d) that fires at once and then every d
NewTickerImmediate(t, d) == t

\* time.NewTicker(d) made at time t: the time of its first tick
NewTicker(t, d) == Add(t, d)

\* Initialize called, once, at the start of the host process
InitializeCall(cfg, fault) ==
    /\ ret = NoRet
    /\ ~initialized
    /\ globalStorage = "nil"
    /\ cleanupJob.pc = "none"
    /\ plugins = <<>>
    /\ initialized' = TRUE
    /\ LET opens == cfg.Enabled /\ cfg.Type \in {"sqlite", ""}
           s == IF opens
                THEN initSQLite(schema, cfg.Path, fault)
                ELSE [schema |-> schema, err |-> "nil"]
           r == Initialize(cfg, s.err)
           p == NewPersistencePlugin(TRUE, r.bufferSize, r.flushInterval)
       IN /\ schema' = s.schema
          /\ globalStorage' = r.storage
          /\ globalPersistencePlugin' = r.plugin
          /\ plugins' = IF r.register THEN <<"persistence">> ELSE <<>>
          /\ hasStorage' = (r.plugin # "nil")
          /\ bufferSize' = IF r.plugin # "nil" THEN p.bufferSize
                           ELSE bufferSize
          /\ flushInterval' = IF r.plugin # "nil" THEN p.flushInterval
                              ELSE flushInterval
          /\ cleanupJob' = IF r.job
                           THEN [pc |-> "wait",
                                 retentionDays |-> cfg.RetentionDays,
                                 started |-> now,
                                 next |-> NewTicker(now, Day),
                                 log |-> <<>>]
                           ELSE cleanupJob
          /\ ret' = [op |-> "Initialize", cfg |-> cfg, fault |-> fault,
                     opens |-> opens, err |-> r.err]
    /\ UNCHANGED <<usage_records, ids, sqlite_sequence, tx, now, cancelled,
                   request, callers, buffer, stopped, mu, stopChCloses, pc,
                   entry, toFlush, flushRet, stopRet, closeRet, writers,
                   issued, store, closed, accepted, calls, dropped,
                   finalFlushBy, dbCloseRes>>

\* the texts of cfg.Persistence.FlushInterval tried: unset, zero, negative,
\* no duration, a number without a unit, and positive ones
DurationTexts ==
    {<<>>, <<"0">>, <<"0", "s">>, <<"-", "5", "s">>, <<"a", "b", "c">>,
     <<"5">>, <<"5", "s">>, <<"5", "0", "0", "m", "s">>,
     <<"1", "m", "3", "0", "s">>}

\* the configurations of an enabled SQLite persistence with every buffer
\* size and flush interval tried
BufferConfigs ==
    [Enabled       : {TRUE},
     Type          : {"sqlite"},
     Path          : {""},
     BufferSize    : {-1, 0, 1, MaxBufferSize},
     FlushInterval : DurationTexts,
     RetentionDays : {0}]

\* no I/O fault
NoFault == [at |-> "none", stmt |-> 0]

\* a host process before Initialize whose requests are handled one after
\* the other
ConfigInit ==
    /\ InitPlugin
    /\ ~hasStorage
    /\ bufferSize = NewPersistencePlugin(FALSE, 0, 0).bufferSize
    /\ callers = {"h1"}
    /\ usage_records = EmptyBag
    /\ tx = NoTx
    /\ ret = NoRet
    /\ ids = << >>
    /\ sqlite_sequence = 0
    /\ schema = NoSchema
    /\ InitHost

\* a usage event is published to the plugin Initialize has registered
PublishUsage(h) ==
    /\ globalPersistencePlugin # "nil"
    /\ HandleUsageCall(h)

\* the host configured in every way, and the plugin it makes filled up to
\* its threshold by one submitter
ConfigNext ==
    \/ \E cfg \in BufferConfigs : InitializeCall(cfg, NoFault)
    \/ PublishUsage("h1")
    \/ HandleUsageLock("h1")
    \/ HandleUsageFinish("h1")
    \/ \E w \in 1..MaxEvents : WriterBegin(w)
    \/ \E w \in 1..MaxEvents : WriterEnd(w)

ConfigSpec == ConfigInit /\ [][ConfigNext]_vars

\* a usage record reaches the store of the initialized host
HostInsert(record) ==
    /\ globalStorage # "nil"
    /\ Insert(record)

\* ---------------------------------------------------------------- cleanup job
\* number of ticks of the cleanup job's ticker over one run
MaxSweeps == 2

\* a cleanup job that gives up after a failed run
AfterSweepExitOnError(err) == IF err = "nil" THEN "wait" ELSE "exited"

\* startCleanupJob after a run: the error is logged and the loop goes on
\* to wait for the next tick
AfterSweep(err) == "wait"

\* one turn of startCleanupJob's loop: time passes until the ticker fires,
\* a day after the last time, cutoff = time.Now().AddDate(0, 0,
\* -retentionDays), Cleanup is called with it and deletes the rows, or
\* fails and changes nothing
CleanupJobTick ==
    /\ StoreOnly
    /\ tx = NoTx
    /\ cleanupJob.pc = "wait"
    /\ Len(cleanupJob.log) < MaxSweeps
    /\ ~Before(cleanupJob.next, now)
    /\ now' = cleanupJob.next
    /\ \E ok \in BOOLEAN :
          LET cutoff == AddDate(now', 0, 0, -cleanupJob.retentionDays)
              c == Cleanup(usage_records, cutoff)
              err == InsertBatchErr(ok)
          IN /\ usage_records' = IF ok THEN c.rows ELSE usage_records
             /\ ids' = IF ok THEN DeleteIds(ids, cutoff) ELSE ids
             /\ cleanupJob' =
                   [cleanupJob EXCEPT
                      !.pc = AfterSweep(err),
                      !.next = Add(@, Day),
                      !.log = Append(@, [at      |-> now',
                                         cutoff  |-> cutoff,
                                         err     |-> err,
                                         deleted |-> IF ok THEN c.deleted
                                                     ELSE 0])]
    /\ UNCHANGED <<pluginVars, sqlite_sequence, schema, tx, ret,
                   globalStorage, initialized, globalPersistencePlugin,
                   plugins, cancelled, request>>

\* ---------------------------------------------------------------- GetMetrics
\* The value of a from / to query parameter: a text in the RFC 3339 layout
\* (modelled by the time it denotes), the empty text of an absent
\* parameter, or a text that is no timestamp
RFC3339(t) == [layout |-> "RFC3339", sec |-> t.sec, frac |-> t.frac]
NoParam == [layout |-> "", sec |-> 0, frac |-> 0]
InvalidTime == [layout |-> "invalid-time", sec |-> 0, frac |-> 0]

\* parseTime that takes the default for a text it cannot parse
parseTimeLenient(s, defaultValue) == [t |-> defaultValue, err |-> "nil"]

\* parseTime: the default for an empty parameter, else
\* time.Parse(time.RFC3339, s)
parseTime(s, defaultValue) ==
    IF s = NoParam
    THEN [t |-> defaultValue, err |-> "nil"]
    ELSE IF s.layout = "RFC3339"
    THEN [t |-> Time(s.sec, s.frac), err |-> "nil"]
    ELSE [t |-> ZeroTime, err |-> "err"]

\* a request for the window from the start of the year to now
Request(interval, model) ==
    [from |-> RFC3339(Time(0, 0)), to |-> NoParam, interval |-> interval,
     model |-> model]

\* the requests that pass the checks of the parameters: the default window
\* and interval, and the year with and without an interval and a model
ValidRequests ==
    {[Request("", "") EXCEPT !.from = NoParam]}
       \cup {Request(i, m) : i \in {"", "day"}, m \in {"", "gpt-4"}}

\* the requests with an unparseable from, an unparseable to and an unknown
\* interval
InvalidRequests ==
    {[Request("", "") EXCEPT !.from = InvalidTime],
     [Request("", "") EXCEPT !.to = InvalidTime],
     Request("invalid", "")}


\* the store reads GetMetrics makes, in order
MetricsReads == <<"GetTotals", "GetByModel", "GetTimeseries", "Aggregate">>

\* the store read of one request that fails: none, or one of the four
ReadFaults == {"none"} \cup Range(MetricsReads)

\* the requests tried with the read that fails while they are served (for
\* a request that is rejected, one of them)
MetricsCalls ==
    (ValidRequests \X ReadFaults)
       \cup (InvalidRequests \X {"none", "GetByModel"})

\* a response with no body
NoBody == [totals |-> NULL, by_model |-> <<>>, timeseries |-> <<>>]

\* GetMetrics: the responses it can give to request q at time t over the
\* rows of the store, when the read named by fault fails. The model
\* parameter is not read. Only a failed GetTotals ends the request; a
\* failed GetByModel, GetTimeseries or Aggregate is logged and its part of
\* the response is left empty.
GetMetrics(storage, rows, t, q, fault) ==
    LET from == parseTime(q.from, Add(t, -Day))
        to == parseTime(q.to, t)
        interval == IF q.interval = "" THEN "hour" ELSE q.interval
    IN IF storage = "nil"
       THEN {[status |-> 503, calls |-> <<>>, body |-> NoBody]}
       ELSE IF from.err # "nil"
       THEN {[status |-> 400, calls |-> <<>>, body |-> NoBody]}
       ELSE IF to.err # "nil"
       THEN {[status |-> 400, calls |-> <<>>, body |-> NoBody]}
       ELSE IF interval \notin {"hour", "day", "week", "month"}
       THEN {[status |-> 400, calls |-> <<>>, body |-> NoBody]}
       ELSE IF fault = "GetTotals"
       THEN {[status |-> 500, calls |-> <<"GetTotals">>, body |-> NoBody]}
       ELSE {[status |-> 200, calls |-> MetricsReads,
              body |-> [totals     |-> GetTotals(rows, from.t, to.t),
                        by_model   |-> IF fault = "GetByModel"
                                       THEN <<>> ELSE m,
                        timeseries |->
                            IF fault = "GetTimeseries"
                            THEN <<>>
                            ELSE GetTimeseries(rows, from.t, to.t,
                                               interval)]] :
               m \in GetByModel(rows, from.t, to.t)}

\* GET /_qs/metrics
GetMetricsCall(q, fault) ==
    /\ StoreOnly
    /\ tx = NoTx
    /\ \E response \in GetMetrics(globalStorage, usage_records, now, q,
                                  fault) :
          ret' = [op |-> "GetMetrics", request |-> q, fault |-> fault,
                  storage |-> globalStorage, at |-> now,
                  rows |-> usage_records, response |-> response]
    /\ UNCHANGED <<pluginVars, hostVars, stored, tx>>

\* ---------------------------------------------------------------- GetMetrics
\* The handler read by read, for the requests served while other goroutines
\* write to the store: each of its four reads is a statement of its own on
\* the pool of connections, with no transaction around them.
\* GetMetrics up to its first read: the storage and the parameters checked
GetMetricsBegin(q) ==
    /\ StoreOnly
    /\ request = NoRequest
    /\ globalStorage # "nil"
    /\ LET from == parseTime(q.from, Add(now, -Day))
           to == parseTime(q.to, now)
           interval == IF q.interval = "" THEN "hour" ELSE q.interval
       IN /\ from.err = "nil"
          /\ to.err = "nil"
          /\ interval \in {"hour", "day", "week", "month"}
          /\ request' = [pc |-> "GetTotals", q |-> q, at |-> now,
                         from |-> from.t, to |-> to.t, interval |-> interval,
                         fault |-> "none", body |-> NoBody]
    /\ UNCHANGED <<pluginVars, dbVars, globalStorage, initialized,
                   globalPersistencePlugin, plugins, cleanupJob, cancelled,
                   now>>

\* storage.GetTotals: its failure ends the request with status 500
GetMetricsGetTotals ==
    /\ request.pc = "GetTotals"
    /\ ret = NoRet
    /\ \E ok \in BOOLEAN :
          IF ok
          THEN /\ request' =
                     [request EXCEPT
                        !.pc = "GetByModel",
                        !.body.totals =
                            GetTotals(usage_records, request.from, request.to)]
               /\ UNCHANGED ret
          ELSE /\ request' = NoRequest
               /\ ret' = [op |-> "GetMetrics", request |-> request.q,
                          fault |-> "GetTotals", storage |-> globalStorage,
                          at |-> request.at, rows |-> usage_records,
                          response |-> [status |-> 500,
                                        calls |-> <<"GetTotals">>,
                                        body |-> NoBody]]
    /\ UNCHANGED <<pluginVars, stored, tx, globalStorage, initialized,
                   globalPersistencePlugin, plugins, cleanupJob, cancelled,
                   now>>

\* storage.GetByModel: its failure is logged and leaves by_model empty
GetMetricsGetByModel ==
    /\ request.pc = "GetByModel"
    /\ \E ok \in BOOLEAN :
          IF ok
          THEN \E m \in GetByModel(usage_records, request.from, request.to) :
                  request' = [request EXCEPT !.pc = "GetTimeseries",
                                             !.body.by_model = m]
          ELSE request' = [request EXCEPT !.pc = "GetTimeseries",
                                          !.fault = "GetByModel"]
    /\ UNCHANGED <<pluginVars, dbVars, globalStorage, initialized,
                   globalPersistencePlugin, plugins, cleanupJob, cancelled,
                   now>>

\* storage.GetTimeseries: its failure is logged and leaves timeseries empty
GetMetricsGetTimeseries ==
    /\ request.pc = "GetTimeseries"
    /\ \E ok \in BOOLEAN :
          request' =
             [request EXCEPT
                !.pc = "Aggregate",
                !.fault = IF ok THEN @ ELSE "GetTimeseries",
                !.body.timeseries =
                    IF ok
                    THEN GetTimeseries(usage_records, request.from,
                                       request.to, request.interval)
                    ELSE <<>>]
    /\ UNCHANGED <<pluginVars, dbVars, globalStorage, initialized,
                   globalPersistencePlugin, plugins, cleanupJob, cancelled,
                   now>>

\* storage.Aggregate, whose result fills no part of the body modelled here,
\* and the response with status 200
GetMetricsRespond ==
    /\ request.pc = "Aggregate"
    /\ ret = NoRet
    /\ \E ok \in BOOLEAN :
          ret' = [op |-> "GetMetrics", request |-> request.q,
                  fault |-> IF ok THEN request.fault ELSE "Aggregate",
                  storage |-> globalStorage, at |-> request.at,
                  rows |-> usage_records,
                  response |-> [status |-> 200, calls |-> MetricsReads,
                                body |-> request.body]]
    /\ request' = NoRequest
    /\ UNCHANGED <<pluginVars, stored, tx, globalStorage, initialized,
                   globalPersistencePlugin, plugins, cleanupJob, cancelled,
                   now>>

\* a host process before Initialize: no plugin, a database file no schema
\* statement has run on
HostInit ==
    /\ InitPlugin
    /\ ~hasStorage
    /\ bufferSize = DefaultBufferSize
    /\ callers = {}
    /\ usage_records = EmptyBag
    /\ tx = NoTx
    /\ ret = NoRet
    /\ ids = << >>
    /\ sqlite_sequence = 0
    /\ schema = NoSchema
    /\ InitHost

\* the usage records that reach the store of the host: of both models, in
\* January and in February
HostRecords ==
    {rec \in UsageRecords :
        /\ rec.Timestamp \in {Time(10, 0), Time(31 * 86400 + 5, 0)}
        /\ rec.Timestamp = Time(10, 0) \/ rec.Model = "gpt-4"
        /\ rec.TotalTokens = 100
        /\ ~rec.Failed}

\* the host process: Initialize, the records written, the cleanup job and
\* the metrics endpoint
HostNext ==
    \/ \E cfg \in Configs, fault \in InitFaults : InitializeCall(cfg, fault)
    \/ \E record \in HostRecords : HostInsert(record)
    \/ CleanupJobTick
    \/ \E call \in MetricsCalls : GetMetricsCall(call[1], call[2])
    \/ TakeResult

HostSpec == HostInit /\ [][HostNext]_vars

\* the configuration of the host that serves metrics while it writes: SQLite
\* with a retention of one day
MetricsConfig ==
    [Enabled |-> TRUE, Type |-> "sqlite", Path |-> "", BufferSize |-> 0,
     FlushInterval |-> <<"5", "s">>, RetentionDays |-> 1]

\* InsertBatch called on the store of the initialized host
HostInsertBatch(records) ==
    /\ globalStorage # "nil"
    /\ InsertBatchBeginTx(records)

\* the batches written while metrics are served: full ones, of one model
MetricsBatches ==
    {records \in Batches :
        /\ Len(records) = MaxBatch
        /\ \A i \in DOMAIN records : records[i].Model = "gpt-4"}

\* the host that serves a metrics request for the whole year, read by read,
\* while single records and batches are inserted and the cleanup job runs
MetricsNext ==
    \/ InitializeCall(MetricsConfig, NoFault)
    \/ \E record \in HostRecords : HostInsert(record)
    \/ \E records \in MetricsBatches : HostInsertBatch(records)
    \/ InsertBatchPrepare
    \/ InsertBatchExec
    \/ InsertBatchCommit
    \/ InsertBatchReturn
    \/ CleanupJobTick
    \/ GetMetricsBegin(Request("day", ""))
    \/ GetMetricsGetTotals
    \/ GetMetricsGetByModel
    \/ GetMetricsGetTimeseries
    \/ GetMetricsRespond
    \/ TakeResult

MetricsSpec == HostInit /\ [][MetricsNext]_vars

\* the host process whose client goes on after every call and whose
\* ticker keeps firing
FairHostSpec ==
    HostSpec /\ WF_vars(TakeResult) /\ SF_vars(CleanupJobTick)

\* ---------------------------------------------------------------- restarts
\* the time at which the host first starts
Epoch == Time(40 * Day, 0)

\* the step of the clock: twelve hours, in seconds
HalfDay == Day \div 2

\* number of clock steps after the first start of the host
ClockSteps == 6

\* time passes, twelve hours at a time, once the host has started for the
\* first time; while the cleanup job waits, its ticker fires before the
\* clock goes past the tick
ClockAdvance ==
    /\ schema # NoSchema
    /\ ret = NoRet
    /\ now.sec + HalfDay <= Epoch.sec + ClockSteps * HalfDay
    /\ cleanupJob.pc = "wait" =>
          ~Before(cleanupJob.next, Add(now, HalfDay))
    /\ now' = Add(now, HalfDay)
    /\ UNCHANGED <<pluginVars, dbVars, globalStorage,
                   globalPersistencePlugin, plugins, cleanupJob, cancelled,
                   request, initialized>>

\* the host process ends and a new one starts: the package variables are
\* nil again, no plugin is registered, the goroutine of startCleanupJob
\* and its ticker are gone, and the database file is what it was
Restart ==
    /\ initialized
    /\ ret = NoRet
    /\ tx = NoTx
    /\ initialized' = FALSE
    /\ globalStorage' = "nil"
    /\ globalPersistencePlugin' = "nil"
    /\ plugins' = <<>>
    /\ cleanupJob' = [pc |-> "none"]
    /\ hasStorage' = FALSE
    /\ bufferSize' = DefaultBufferSize
    /\ flushInterval' = DefaultFlushInterval
    /\ UNCHANGED <<stored, tx, ret, now, cancelled, request, callers, buffer,
                   stopped, mu, stopChCloses, pc, entry, toFlush, flushRet,
                   stopRet, closeRet, writers, issued, store, closed,
                   accepted, calls, dropped, finalFlushBy, dbCloseRes>>

\* the clock has reached the next tick of the cleanup job's ticker
TickerFires ==
    /\ cleanupJob.pc = "wait"
    /\ now = cleanupJob.next
    /\ CleanupJobTick

\* the configurations of an enabled SQLite persistence with a retention
\* period
RetentionConfigs ==
    [Enabled       : {TRUE},
     Type          : {"sqlite"},
     Path          : {""},
     BufferSize    : {0},
     FlushInterval : {<<"5", "s">>},
     RetentionDays : {1, 30}]

\* the host that is started, runs for some time, and is started again,
\* over a database file that holds old records
RestartNext ==
    \/ \E cfg \in RetentionConfigs : InitializeCall(cfg, NoFault)
    \/ \E record \in HostRecords : HostInsert(record)
    \/ ClockAdvance
    \/ TickerFires
    \/ Restart
    \/ TakeResult

RestartSpec == HostInit /\ [][RestartNext]_vars

\* ---------------------------------------------------------------- BasicAuth
\* the characters of the credentials tried
AuthChars == {"u", "v", "p", ":"}

\* longest credentials text tried
MaxAuthLen == 3

\* the texts of at most n characters
RECURSIVE AuthTexts(_)
AuthTexts(n) ==
    IF n = 0 THEN {<<>>}
    ELSE LET shorter == AuthTexts(n - 1) IN
         shorter \cup {Append(s, c) : s \in shorter, c \in AuthChars}

\* the lower-case form of an authentication scheme
ToLower(scheme) ==
    CASE scheme = "Basic" -> "basic"
      [] scheme = "BASIC" -> "basic"
      [] scheme = "Bearer" -> "bearer"
      [] OTHER -> scheme

\* ascii.EqualFold
EqualFold(s, t) == ToLower(s) = ToLower(t)

\* The Authorization header of a request: none, or a scheme followed by a
\* payload that is the base64 encoding of a text or is no base64 at all
NoAuthorization == [scheme |-> "", base64 |-> FALSE, text |-> <<>>]
Authorization(scheme, text) ==
    [scheme |-> scheme, base64 |-> TRUE, text |-> text]
NotBase64(scheme) == [scheme |-> scheme, base64 |-> FALSE, text |-> <<>>]

\* strings.Cut(s, sep): the text before and after the first sep
RECURSIVE Cut(_, _)
Cut(s, sep) ==
    IF s = <<>>
    THEN [before |-> <<>>, after |-> <<>>, found |-> FALSE]
    ELSE IF Head(s) = sep
    THEN [before |-> <<>>, after |-> Tail(s), found |-> TRUE]
    ELSE LET r == Cut(Tail(s), sep) IN
         IF r.found
         THEN [r EXCEPT !.before = <<Head(s)>> \o @]
         ELSE [before |-> s, after |-> <<>>, found |-> FALSE]

\* c.Request.BasicAuth(): the user and password of a header with the Basic
\* scheme, in any case, whose payload decodes to user:password
RequestBasicAuth(auth) ==
    LET none == [user |-> <<>>, pass |-> <<>>, ok |-> FALSE]
        cs == Cut(auth.text, ":")
    IN IF auth = NoAuthorization THEN none
       ELSE IF ~EqualFold(auth.scheme, "Basic") THEN none
       ELSE IF ~auth.base64 THEN none
       ELSE IF ~cs.found THEN none
       ELSE [user |-> cs.before, pass |-> cs.after, ok |-> TRUE]

\* subtle.ConstantTimeCompare
ConstantTimeCompare(x, y) ==
    IF Len(x) # Len(y) THEN 0
    ELSE IF \A i \in 1..Len(x) : x[i] = y[i] THEN 1 ELSE 0

\* the handlers after the middleware ran and answered
Passed == [status |-> 200, handlerRan |-> TRUE, error |-> "",
           challenge |-> FALSE]

\* c.Header("WWW-Authenticate", ...) and c.AbortWithStatusJSON(401, ...)
Unauthorized(error) ==
    [status |-> 401, handlerRan |-> FALSE, error |-> error,
     challenge |-> TRUE]

\* a middleware that compares the user name only
BasicAuthUserOnly(username, password, auth) ==
    LET r == RequestBasicAuth(auth) IN
    IF username = <<>> \/ password = <<>> THEN Passed
    ELSE IF ~r.ok THEN Unauthorized("authentication required")
    ELSE IF ConstantTimeCompare(r.user, username) # 1
    THEN Unauthorized("invalid credentials")
    ELSE Passed

\* the handler BasicAuth(username, password) returns, run on a request
\* with the Authorization header auth
BasicAuth(username, password, auth) ==
    LET r == RequestBasicAuth(auth)
        usernameMatch == ConstantTimeCompare(r.user, username) = 1
        passwordMatch == ConstantTimeCompare(r.pass, password) = 1
    IN IF username = <<>> \/ password = <<>> THEN Passed
       ELSE IF ~r.ok THEN Unauthorized("authentication required")
       ELSE IF ~usernameMatch \/ ~passwordMatch
       THEN Unauthorized("invalid credentials")
       ELSE Passed

\* the credentials the middleware is configured with
AuthUsernames == {<<>>, <<"u">>}
AuthPasswords == {<<>>, <<"p">>, <<":", "p">>}

\* the Authorization headers of the requests tried
AuthHeaders ==
    {NoAuthorization}
       \cup {NotBase64(scheme) : scheme \in {"Basic", "Bearer"}}
       \cup {Authorization(scheme, text) :
               scheme \in {"Basic", "basic", "BASIC", "Bearer"},
               text \in AuthTexts(MaxAuthLen)}

\* a request is served by a route behind BasicAuth(username, password)
ServeBasicAuth(username, password, auth) ==
    /\ StoreOnly
    /\ ret' = [op |-> "BasicAuth", username |-> username,
               password |-> password, auth |-> auth,
               res |-> BasicAuth(username, password, auth)]
    /\ UNCHANGED <<pluginVars, hostVars, stored, tx>>

\* requests served one after the other by routes behind the middleware,
\* configured in every way
AuthNext ==
    \/ \E username \in AuthUsernames, password \in AuthPasswords,
          auth \in AuthHeaders : ServeBasicAuth(username, password, auth)
    \/ TakeResult

AuthSpec == HostInit /\ [][AuthNext]_vars

\* ---------------------------------------------------------------- properties
\* the events that are rows of the store
Stored == BagToSet(store)

\* no InsertBatch call has returned an error so far
NoWriteFailed == dropped = {}

\* task t is inside the InsertBatch call of its Flush
InsideInsertBatch(t) == pc[t] = "inserting"

\* a Shutdown (Close) call of task t has returned
ShutdownReturned(t) == pc[t] = "done" /\ entry[t] = "Shutdown"

\* C1: once a graceful shutdown has returned and no store write has failed,
\* every event HandleUsage accepted is a row of the store, also the events
\* of a background write that was in flight when the shutdown began.
\* (Stated for the shutdown call that performed the final flush.)
C1_ShutdownDeliversAccepted ==
    \A t \in Stoppers :
        (ShutdownReturned(t) /\ t \in finalFlushBy /\ NoWriteFailed)
            => Range(accepted) \subseteq Stored

\* C2: a HandleUsage call never waits for a store write: no HandleUsage call
\* is blocked on the mutex while its holder is inside InsertBatch.
C2_SubmitNeverWaitsForWrite ==
    \A h \in Submitters :
        ~(pc[h] = "lock" /\ mu \in Tasks /\ InsideInsertBatch(mu))

\* C3: the mutex is never held across a store write: a task that is inside
\* InsertBatch does not hold the mutex.
C3_NoMutexAcrossInsertBatch ==
    \A t \in Flushers \cup Stoppers : InsideInsertBatch(t) => mu # t

\* HandleUsage calls that have returned without appending their event
DroppedCalls ==
    calls - Len(accepted) - Cardinality({h \in Submitters : pc[h] = "lock"})

\* some step of a HandleUsage call
HandleUsageStep ==
    \/ calls' # calls
    \/ \E h \in Submitters : pc'[h] # pc[h]

\* C4: HandleUsage on a stopped plugin, or on one without a store, is a
\* no-op: it leaves the buffer unchanged, starts no write and adds no row.
C4_HandleUsageNoOpWhenStopped ==
    [][(HandleUsageStep /\ (stopped \/ ~hasStorage))
          => /\ buffer' = buffer
             /\ accepted' = accepted
             /\ writers' = writers
             /\ issued' = issued
             /\ store' = store]_vars

\* C4 witness: a HandleUsage call on a stopped plugin has returned
C4_Witness == hasStorage /\ stopped /\ accepted # <<>> /\ DroppedCalls > 0

\* the Stop calls that found the plugin running
FirstStops == finalFlushBy \cup {t \in Stoppers : pc[t] = "close_ch"}

\* C5: however many Stop calls there are, the stop channel is closed once,
\* one final flush is performed, and every call after the first returns nil
\* without handing a batch to the store.
C5_StopIdempotent ==
    /\ stopChCloses <= 1
    /\ Cardinality(FirstStops) <= 1
    /\ \A t \in Stoppers \ FirstStops :
          /\ toFlush[t] = <<>>
          /\ stopRet[t] # "none" => stopRet[t] = "nil"
    /\ (\A t \in Stoppers : stopRet[t] # "none")
          => /\ stopChCloses = 1
             /\ Cardinality(finalFlushBy) = 1

\* C5 witness: two Stop calls have returned, one of them after flushing a
\* non-empty buffer
C5_Witness ==
    /\ \A t \in Stoppers : stopRet[t] # "none"
    /\ \E t \in Stoppers : toFlush[t] # <<>>

\* writer w exists and was started by the given trigger
WriterOf(w, src) == w <= Len(writers) /\ writers[w].src = src

\* writer w exists and its InsertBatch call has returned
WriterDone(w) == w <= Len(writers) /\ writers[w].st = "done"

\* every event of the batch is a row of the store exactly once
Landed(batch) == \A e \in Range(batch) : CopiesIn(e, store) = 1

\* the step starts one more background write, of the given batch and
\* trigger, that has not called InsertBatch yet
Dispatches(batch, src) ==
    /\ Len(writers') = Len(writers) + 1
    /\ SubSeq(writers', 1, Len(writers)) = writers
    /\ LET w == writers'[Len(writers')] IN
          /\ w.batch = batch
          /\ w.st = "spawned"
          /\ w.res = "none"
          /\ w.src = src

\* C6: the HandleUsage call that brings the buffer to the threshold flushes
\* in that same call: the buffer is drained and a batch of exactly
\* bufferSize events is dispatched; the dispatched write completes, and if
\* it succeeds the batch's events are rows of the store.
C6_ThresholdFlushInSameCall ==
    /\ [][\A h \in Submitters :
            (pc[h] = "appended" /\ pc'[h] = "idle")
               => IF Len(buffer) >= bufferSize
                  THEN /\ Len(buffer) = bufferSize
                       /\ buffer' = <<>>
                       /\ Dispatches(buffer, "threshold")
                  ELSE buffer' = buffer /\ writers' = writers]_vars
    /\ \A w \in 1..MaxEvents :
          WriterOf(w, "threshold") ~> WriterDone(w)
    /\ [](\A w \in 1..Len(writers) :
             (WriterOf(w, "threshold") /\ writers[w].res = "nil")
                => /\ Len(writers[w].batch) = bufferSize
                   /\ Landed(writers[w].batch))

\* C6 witness: a threshold-triggered write of a full batch has succeeded
C6_Witness ==
    \E w \in 1..Len(writers) :
        /\ WriterOf(w, "threshold")
        /\ writers[w].res = "nil"
        /\ Len(writers[w].batch) = 2

\* C7: a timer tick on a running plugin drains a non-empty buffer into one
\* background write, which completes and, if it succeeds, stores each of
\* the buffered events exactly once; a tick that finds the buffer empty
\* (or the plugin stopped) issues no store call.
C7_TimerFlushDeliversBuffer ==
    /\ [][(pc[TimerTask] = "lock" /\ pc'[TimerTask] = "select")
             => IF ~stopped /\ Len(buffer) > 0
                THEN /\ buffer' = <<>>
                     /\ Dispatches(buffer, "timer")
                ELSE /\ buffer' = buffer
                     /\ writers' = writers
                     /\ issued' = issued]_vars
    /\ \A w \in 1..MaxEvents :
          WriterOf(w, "timer") ~> WriterDone(w)
    /\ [](\A w \in 1..Len(writers) :
             WriterOf(w, "timer")
                => /\ Len(writers[w].batch) \in 1..(bufferSize - 1)
                   /\ writers[w].res = "nil" => Landed(writers[w].batch))
    /\ [](\A e \in Range(accepted) : CopiesIn(e, store) <= 1)

\* C7 witness: a timer-triggered write of two buffered events has succeeded
C7_Witness ==
    \E w \in 1..Len(writers) :
        /\ WriterOf(w, "timer")
        /\ writers[w].res = "nil"
        /\ Len(writers[w].batch) = 2

\* the tasks that run Flush
FlushTasks == Flushers \cup Stoppers

\* what the Flush of task t returned, given the two return-value variables
RetOf(fr, sr, t) == IF t \in Flushers THEN fr[t] ELSE sr[t]

\* C8: an explicit Flush hands the whole buffer to the store in one
\* InsertBatch call and returns that call's error; the buffer is empty when
\* it returns, whether the write succeeded or not, and the events of a
\* failed batch are never put back.
C8_FlushHandsWholeBufferOnce ==
    /\ [][\A t \in FlushTasks :
            /\ (pc[t] # "inserting" /\ pc'[t] = "inserting")
                  => /\ buffer # <<>>
                     /\ toFlush'[t] = buffer
                     /\ buffer' = <<>>
                     /\ issued' = issued (+) SetToBag({buffer})
            /\ (pc[t] = "inserting" /\ pc'[t] # "inserting")
                  => /\ buffer' = <<>>
                     /\ issued' = issued
                     /\ \/ store' = store
                        \/ store' = store (+) SetToBag(Range(toFlush[t]))
                     /\ RetOf(flushRet', stopRet', t) =
                           IF store' = store THEN "err" ELSE "nil"]_vars
    /\ [](\A t \in FlushTasks :
             pc[t] = "inserting"
                => buffer = <<>> /\ CopiesIn(toFlush[t], issued) = 1)
    /\ [](dropped \cap Range(buffer) = {})

\* C8 witness: a Flush whose store write failed has returned the error
C8_Witness ==
    /\ flushRet["f1"] = "err"
    /\ ~closed
    /\ Range(toFlush["f1"]) \cap dropped # {}
    /\ buffer = <<>>

\* writer w's InsertBatch call has failed
FailedWriter(w) == WriterDone(w) /\ writers[w].res = "err"

FinalFlushFailed(t) ==
    /\ t \in finalFlushBy
    /\ stopRet[t] # "none"
    /\ Range(toFlush[t]) \cap dropped # {}

\* C10 as claimed: when the final flush of a shutdown fails, Stop, Close and
\* Shutdown each return a non-nil error.
C10_ShutdownReturnsFlushError ==
    \A t \in Stoppers :
        (pc[t] = "done" /\ FinalFlushFailed(t))
           => /\ stopRet[t] = "err"
              /\ entry[t] = "Shutdown"
                   => closeRet[t] = "err" /\ Shutdown(closeRet[t]) = "err"

\* C10 amended: Stop returns the error of a failed final flush; Close only
\* logs it and returns what closing the store returned, and Shutdown
\* returns non-nil exactly when closing the store failed.
C10_StopReturnsFlushError ==
    \A t \in Stoppers :
        /\ (t \in finalFlushBy /\ stopRet[t] # "none")
              => (stopRet[t] = "err" <=> FinalFlushFailed(t))
        /\ (pc[t] = "done" /\ entry[t] = "Shutdown" /\ hasStorage)
              => /\ closeRet[t] = dbCloseRes[t]
                 /\ Shutdown(closeRet[t]) = "err" <=> dbCloseRes[t] = "err"

\* C10 witness: a Shutdown whose final flush failed has returned nil
C10_Witness ==
    \E t \in Stoppers :
        /\ pc[t] = "done"
        /\ entry[t] = "Shutdown"
        /\ FinalFlushFailed(t)
        /\ stopRet[t] = "err"
        /\ Shutdown(closeRet[t]) = "nil"

\* batch b is a non-empty contiguous run of the acceptance sequence
IsRun(b) ==
    /\ b # <<>>
    /\ \E k \in 1..Len(accepted) :
          /\ k + Len(b) - 1 <= Len(accepted)
          /\ b = SubSeq(accepted, k, k + Len(b) - 1)

\* the background writers that have not called InsertBatch yet
Waiting == {w \in 1..Len(writers) : writers[w].st = "spawned"}

\* the number of batches, handed to InsertBatch or waiting to be, that
\* hold event e
BatchesWith(e) ==
    LET handed == {b \in BagToSet(issued) : e \in Range(b)}
        copies == {<<b, i>> \in handed \X (1..MaxEvents) :
                      i <= CopiesIn(b, issued)}
    IN Cardinality(copies)
         + Cardinality({w \in Waiting : e \in Range(writers[w].batch)})

\* C11: every accepted event is in exactly one batch or still in the
\* buffer; every batch is a contiguous run of the acceptance sequence in
\* acceptance order; a drain takes all the events accepted since the
\* previous drain, and events accepted later go to a later batch.
C11_BatchesPartitionAcceptance ==
    /\ [](\A e \in Range(accepted) :
             BatchesWith(e) + (IF e \in Range(buffer) THEN 1 ELSE 0) = 1)
    /\ [](\A b \in BagToSet(issued) \cup {writers[w].batch : w \in Waiting} :
             IsRun(b))
    /\ [](buffer = SubSeq(accepted, Len(accepted) - Len(buffer) + 1,
                          Len(accepted)))
    /\ [](\A w, v \in 1..Len(writers) :
             w < v => \A e \in Range(writers[w].batch),
                         f \in Range(writers[v].batch) : e < f)
    /\ [][(buffer' # buffer /\ Len(buffer') <= Len(buffer))
             => /\ buffer' = <<>>
                /\ \/ /\ issued' = issued (+) SetToBag({buffer})
                      /\ writers' = writers
                   \/ /\ issued' = issued
                      /\ Len(writers') = Len(writers) + 1
                      /\ SubSeq(writers', 1, Len(writers)) = writers
                      /\ writers'[Len(writers')].batch = buffer]_vars

\* C11 witness: three events were accepted; a background write and an
\* explicit Flush have each taken a batch and the last event is buffered
C11_Witness ==
    /\ Len(accepted) = 3
    /\ Len(writers) = 1
    /\ flushRet["f1"] # "none"
    /\ toFlush["f1"] # <<>>
    /\ buffer = <<3>>

\* the InsertBatch calls in progress: background writers and Flush calls
InProgress ==
    Cardinality({w \in 1..Len(writers) : writers[w].st = "inside"})
      + Cardinality({t \in FlushTasks : pc[t] = "inserting"})

\* C12: flushes do not overlap: at no time are two InsertBatch calls of the
\* write buffer in progress, so batches reach the store in drain order.
C12_FlushesDoNotOverlap == InProgress <= 1

\* ---------------------------------------------------------------- store properties
\* the records stored in the table, as they were passed to the store
StoredRecords(rows) ==
    [rec \in {r.record : r \in BagToSet(rows)} |-> rows[Row(rec)]]

\* C13: InsertBatch is all-or-nothing: when it returns nil every record of
\* the batch is a row of the table; when it returns an error (BeginTx,
\* Prepare, a row's Exec or Commit failed, or the deadline expired) no row
\* of the batch is in the table and the rows stored before are unchanged;
\* an empty batch returns nil and changes nothing.
C13_InsertBatchAllOrNothing ==
    tx.st = "returned"
       => /\ tx.err = "nil"
                => usage_records = tx.before (+) RowsOf(tx.records)
          /\ tx.err # "nil" => usage_records = tx.before
          /\ tx.records = <<>>
                => tx.err = "nil" /\ usage_records = tx.before

\* C13 witness: InsertBatch of two records has returned an error after one
\* row was written, over a table that held a row
C13_Witness ==
    /\ tx.st = "returned"
    /\ tx.err = "err"
    /\ Len(tx.records) = 2
    /\ tx.written = 1
    /\ tx.before # EmptyBag

\* the read operations
ReadOps ==
    {"GetRecordCount", "GetTotals", "GetByModel", "GetTimeseries", "Query"}

\* the result r of a read is one the read can return over the rows given
Observes(r, rows) ==
    CASE r.op = "GetRecordCount" -> r.value = GetRecordCount(rows)
      [] r.op = "GetTotals" -> r.value = GetTotals(rows, r.from, r.to)
      [] r.op = "GetByModel" -> r.value \in GetByModel(rows, r.from, r.to)
      [] r.op = "GetTimeseries" ->
            r.value = GetTimeseries(rows, r.from, r.to, r.interval)
      [] r.op = "Query" -> r.value \in Query(rows, r.filter)

\* C14: a read that runs next to an InsertBatch observes none or all of the
\* batch's records: its result is a result over the table as it was when
\* the call began, or over that table with the whole batch, never one over
\* a proper non-empty part of the batch.
C14_ReadsSeeNoneOrAllOfBatch ==
    (tx.st # "idle" /\ ret.op \in ReadOps)
       => \/ Observes(ret, tx.before)
          \/ Observes(ret, tx.before (+) RowsOf(tx.records))

\* C14 witness: a read made while one of the two rows of a batch was
\* written in the open transaction has seen none of the batch
C14_Witness ==
    /\ tx.st \in {"exec", "commit"}
    /\ Len(tx.records) = 2
    /\ ret.op = "GetRecordCount"
    /\ ret.uncommitted = 1
    /\ ret.value = Count(tx.before)

\* the records whose event time t satisfies from <= t <= to
InstantWindow(records, from, to) ==
    LET Is(rec) == ~Before(rec.Timestamp, from) /\ ~Before(to, rec.Timestamp)
    IN Where(records, Is)

\* the records whose event time, taken to the whole second, lies between
\* from and to, both taken to the whole second
SecondWindow(records, from, to) ==
    LET Is(rec) == from.sec <= rec.Timestamp.sec /\ rec.Timestamp.sec <= to.sec
    IN Where(records, Is)

\* the records of a bag that failed (f = TRUE) or succeeded (f = FALSE)
WithFailed(records, f) ==
    LET Is(rec) == rec.Failed = f IN Where(records, Is)

\* the records of a bag with the given model
WithModel(records, m) ==
    LET Is(rec) == rec.Model = m IN Where(records, Is)

\* totals are the aggregates of the bag w of records
TotalsOf(totals, w) ==
    /\ totals.Requests = BagCardinality(w)
    /\ totals.Tokens = SumRows(w, "TotalTokens")
    /\ totals.FailedRequests = BagCardinality(WithFailed(w, TRUE))
    /\ totals.SuccessRequests = BagCardinality(WithFailed(w, FALSE))
    /\ totals.FailedRequests + totals.SuccessRequests = totals.Requests
    /\ w = EmptyBag =>
          totals = [Requests |-> 0, Tokens |-> 0, FailedRequests |-> 0,
                    SuccessRequests |-> 0]

\* C15 as claimed: GetTotals(from, to) aggregates exactly the stored records
\* whose event timestamp t satisfies from <= t <= to.
C15_TotalsOverInstants ==
    ret.op = "GetTotals"
       => TotalsOf(ret.value,
                   InstantWindow(StoredRecords(usage_records),
                                 ret.from, ret.to))

\* C15 amended: GetTotals(from, to) aggregates exactly the stored records
\* whose event timestamp lies in [from, to] when all three are taken to the
\* whole second: Requests is their count, Tokens their token sum, Failed-
\* and SuccessRequests count the failed and the others and add up to
\* Requests, and a window matching no record yields all zeros.
C15_TotalsOverSeconds ==
    ret.op = "GetTotals"
       => TotalsOf(ret.value,
                   SecondWindow(StoredRecords(usage_records),
                                ret.from, ret.to))

\* C15 witness: GetTotals returned the totals of a failed and a successful
\* record of 100 and 200 tokens, from a window that starts and ends inside
\* their second
C15_Witness ==
    /\ ret.op = "GetTotals"
    /\ ret.from = Time(10, 1)
    /\ ret.to = Time(10, 0)
    /\ ret.value = [Requests |-> 2, Tokens |-> 300, FailedRequests |-> 1,
                    SuccessRequests |-> 1]

\* metrics is a per-model breakdown of the bag w of records, ordered by
\* total tokens descending
ByModelOf(metrics, w) ==
    LET models == {rec.Model : rec \in BagToSet(w)} IN
    /\ Len(metrics) = Cardinality(models)
    /\ {metrics[i].Model : i \in 1..Len(metrics)} = models
    /\ \A i \in 1..Len(metrics) :
          /\ metrics[i].Requests =
                BagCardinality(WithModel(w, metrics[i].Model))
          /\ metrics[i].Tokens =
                SumRows(WithModel(w, metrics[i].Model), "TotalTokens")
    /\ \A i, j \in 1..Len(metrics) :
          i < j => metrics[i].Tokens >= metrics[j].Tokens

\* C16 as claimed: GetByModel(from, to) returns one entry per model among
\* the records whose event timestamp t satisfies from <= t <= to, with that
\* model's count and token sum, ordered by total tokens descending.
C16_ByModelOverInstants ==
    ret.op = "GetByModel"
       => ByModelOf(ret.value,
                    InstantWindow(StoredRecords(usage_records),
                                  ret.from, ret.to))

\* C16 amended: GetByModel(from, to) returns exactly one entry per model
\* among the records of the window [from, to] taken to the whole second,
\* each with the count and the token sum of that model's records in the
\* window, ordered by total tokens descending.
C16_ByModelOverSeconds ==
    ret.op = "GetByModel"
       => ByModelOf(ret.value,
                    SecondWindow(StoredRecords(usage_records),
                                 ret.from, ret.to))

\* C16 witness: GetByModel returned two models, the one with more tokens
\* first
C16_Witness ==
    /\ ret.op = "GetByModel"
    /\ Len(ret.value) = 2
    /\ ret.value[1].Tokens > ret.value[2].Tokens

\* b is the first instant of an hour, a day or a month
StartsUnit(interval, b) ==
    /\ b.frac = 0
    /\ b.sec >= 0
    /\ CASE interval = "hour" -> b.sec % 3600 = 0
         [] interval = "day" -> b.sec % 86400 = 0
         [] interval = "month" ->
               /\ b.sec % 86400 = 0
               /\ \E m \in 1..12 : MonthFirstDay[m] = DayOfYear(b.sec)

\* the first second after the hour, day or month that starts at b
UnitEnd(interval, b) ==
    CASE interval = "hour" -> b.sec + 3600
      [] interval = "day" -> b.sec + 86400
      [] interval = "month" ->
            LET m == MonthOf(DayOfYear(b.sec))
            IN IF m = 12 THEN 365 * 86400 ELSE MonthFirstDay[m + 1] * 86400

\* the records of a bag whose event time t has b <= t < b + unit
InBucket(records, interval, b) ==
    LET Is(rec) == /\ ~Before(rec.Timestamp, b)
                   /\ Before(rec.Timestamp, Time(UnitEnd(interval, b), 0))
    IN Where(records, Is)

\* points is the series of the bag w of records: one point per non-empty
\* bucket, none for an empty one, each record in exactly one point, points
\* in ascending bucket order
TimeseriesOf(points, w, interval) ==
    /\ \A i \in 1..Len(points) :
          LET g == InBucket(w, interval, points[i].BucketStart) IN
          /\ StartsUnit(interval, points[i].BucketStart)
          /\ g # EmptyBag
          /\ points[i].Requests = BagCardinality(g)
          /\ points[i].Tokens = SumRows(g, "TotalTokens")
    /\ \A rec \in BagToSet(w) :
          Cardinality({i \in 1..Len(points) :
              rec \in BagToSet(InBucket(w, interval,
                                        points[i].BucketStart))}) = 1
    /\ \A i, j \in 1..Len(points) :
          i < j => Before(points[i].BucketStart, points[j].BucketStart)

\* C17 as claimed: for hour, day and month GetTimeseries(from, to, g)
\* returns one point per non-empty bucket of the records whose event
\* timestamp t satisfies from <= t <= to.
C17_TimeseriesOverInstants ==
    (ret.op = "GetTimeseries" /\ ret.interval \in {"hour", "day", "month"})
       => TimeseriesOf(ret.value,
                       InstantWindow(StoredRecords(usage_records),
                                     ret.from, ret.to),
                       ret.interval)

\* C17 amended: for hour, day and month GetTimeseries(from, to, g) returns,
\* over the records of the window [from, to] taken to the whole second, one
\* point per bucket that holds a record and none for an empty bucket; each
\* BucketStart is the first instant of its hour, day or month, every record
\* of the window is counted in exactly one point, the one with
\* BucketStart <= t < BucketStart + unit, and the points are in ascending
\* bucket order.
C17_TimeseriesOverSeconds ==
    (ret.op = "GetTimeseries" /\ ret.interval \in {"hour", "day", "month"})
       => TimeseriesOf(ret.value,
                       SecondWindow(StoredRecords(usage_records),
                                    ret.from, ret.to),
                       ret.interval)

\* C17 witness: a daily series over a record of January 1 and one of
\* February 1 has two points, of one request each
C17_Witness ==
    /\ ret.op = "GetTimeseries"
    /\ ret.interval = "day"
    /\ Len(ret.value) = 2
    /\ ret.value[1].BucketStart = Time(0, 0)
    /\ ret.value[2].BucketStart = Time(31 * 86400, 0)
    /\ ret.value[1].Requests = 1

\* the calendar week (weeks begin on Monday) of a time of 2025, counted from
\* the week of January 1
WeekOfYear(t) == (DayOfYear(t.sec) + Weekday(0)) \div 7

\* C18: for granularity week every bucket key is decoded to a BucketStart
\* in the calendar week of the bucket's records, and different week buckets
\* decode to different dates.
C18_WeekBucketDecodesToItsWeek ==
    (ret.op = "GetTimeseries" /\ ret.interval = "week")
       => LET w == SecondWindow(StoredRecords(usage_records),
                                ret.from, ret.to)
              InWeekOf(b) ==
                  LET Is(rec) == WeekOfYear(rec.Timestamp) = WeekOfYear(b)
                  IN Where(w, Is)
          IN /\ \A i \in 1..Len(ret.value) :
                   /\ ~IsZero(ret.value[i].BucketStart)
                   /\ ret.value[i].Requests =
                         BagCardinality(InWeekOf(ret.value[i].BucketStart))
             /\ \A i, j \in 1..Len(ret.value) :
                   i # j => ret.value[i].BucketStart # ret.value[j].BucketStart

\* the rows of a bag that Cleanup(olderThan) is to delete when event times
\* are compared as instants
OlderInstants(rows, olderThan) ==
    LET Is(r) == Before(r.record.Timestamp, olderThan) IN Where(rows, Is)

\* the rows of a bag whose event time, taken to the whole second, is before
\* olderThan taken to the whole second
OlderSeconds(rows, olderThan) ==
    LET Is(r) == r.record.Timestamp.sec < olderThan.sec IN Where(rows, Is)

\* C19 as claimed: Cleanup(olderThan) deletes every stored record whose
\* event timestamp is strictly before olderThan and returns their number.
C19_CleanupDeletesOlderInstants ==
    ret.op = "Cleanup"
       => /\ usage_records (+) OlderInstants(ret.before, ret.olderThan)
                = ret.before
          /\ ret.deleted
                = BagCardinality(OlderInstants(ret.before, ret.olderThan))

\* C19 amended: Cleanup(olderThan) deletes exactly the stored records whose
\* event timestamp, taken to the whole second, is strictly before olderThan
\* taken to the whole second, and returns the number it deleted, 0 when no
\* record matches; a record in the second of olderThan is kept.
C19_CleanupDeletesOlderSeconds ==
    ret.op = "Cleanup"
       => /\ usage_records (+) OlderSeconds(ret.before, ret.olderThan)
                = ret.before
          /\ OlderSeconds(usage_records, ret.olderThan) = EmptyBag
          /\ ret.deleted
                = BagCardinality(OlderSeconds(ret.before, ret.olderThan))
          /\ ret.deleted = Count(ret.before) - Count(usage_records)
          /\ \A r \in BagToSet(ret.before) :
                r.record.Timestamp.sec = ret.olderThan.sec
                   => CopiesIn(r, usage_records) = CopiesIn(r, ret.before)

\* C19 witness: Cleanup deleted a record and kept one in the second of
\* olderThan
C19_Witness ==
    /\ ret.op = "Cleanup"
    /\ ret.deleted = 1
    /\ \E r \in BagToSet(usage_records) :
          r.record.Timestamp.sec = ret.olderThan.sec

\* the bag of the elements of a sequence
SeqToBag(s) == [x \in Range(s) |-> Cardinality({i \in DOMAIN s : s[i] = x})]

\* a stored record as Query returns it: its timestamp to the whole second
AsReturned(rec) == [rec EXCEPT !.Timestamp = Time(rec.Timestamp.sec, 0)]

\* the bag of the records of a bag as Query returns them
ReturnedBag(records) ==
    [x \in {AsReturned(rec) : rec \in BagToSet(records)} |->
        LET Is(rec) == AsReturned(rec) = x
        IN BagCardinality(Where(records, Is))]

\* record rec satisfies the conditions of the filter other than the window
MatchesFields(rec, filter) ==
    /\ filter.Provider # "" => rec.Provider = filter.Provider
    /\ filter.Model # "" => rec.Model = filter.Model
    /\ filter.APIKey # "" => rec.APIKey = filter.APIKey
    /\ \A b \in filter.Failed : rec.Failed = b

\* the records that satisfy the filter, the window on event times
MatchInstants(records, filter) ==
    LET Is(rec) == /\ \A f \in filter.From : ~Before(rec.Timestamp, f)
                   /\ \A t \in filter.To : ~Before(t, rec.Timestamp)
                   /\ MatchesFields(rec, filter)
    IN Where(records, Is)

\* the records that satisfy the filter, the window on whole seconds
MatchSeconds(records, filter) ==
    LET Is(rec) == /\ \A f \in filter.From : f.sec <= rec.Timestamp.sec
                   /\ \A t \in filter.To : rec.Timestamp.sec <= t.sec
                   /\ MatchesFields(rec, filter)
    IN Where(records, Is)

\* result is the bag m of matching records newest first, or, when n > 0,
\* the first n of them
QueryResultOf(result, m, n) ==
    LET expected == ReturnedBag(m)
        got == SeqToBag(result)
    IN /\ \A i, j \in 1..Len(result) :
             i < j => ~Before(result[i].Timestamp, result[j].Timestamp)
       /\ IF n > 0 /\ n < BagCardinality(expected)
          THEN /\ Len(result) = n
               /\ got \sqsubseteq expected
               /\ \A x \in BagToSet(expected) :
                     CopiesIn(x, got) < CopiesIn(x, expected)
                        => ~Before(result[n].Timestamp, x.Timestamp)
          ELSE got = expected

\* C20 as claimed: Query(filter) returns exactly the stored records that
\* satisfy every condition the filter sets, the time window on the event
\* timestamps, newest first, cut to the first Limit when Limit > 0.
C20_QueryOverInstants ==
    ret.op = "Query"
       => QueryResultOf(ret.value,
                        MatchInstants(StoredRecords(usage_records),
                                      ret.filter),
                        ret.filter.Limit)

\* C20 amended: Query(filter) returns exactly the stored records that
\* satisfy every condition the filter sets (model, provider, API key,
\* failed flag, and the time window with the bounds and the timestamps
\* taken to the whole second), ordered by timestamp newest first, and only
\* the first Limit of them when Limit > 0; a condition left unset does not
\* restrict the result.
C20_QueryOverSeconds ==
    ret.op = "Query"
       => QueryResultOf(ret.value,
                        MatchSeconds(StoredRecords(usage_records),
                                     ret.filter),
                        ret.filter.Limit)

\* C20 witness: of two gpt-4 records Query with the model filter and
\* Limit 1 returned the newer one only
C20_Witness ==
    /\ ret.op = "Query"
    /\ ret.filter.Model = "gpt-4"
    /\ ret.filter.Limit = 1
    /\ Len(ret.value) = 1
    /\ \E r \in BagToSet(usage_records) :
          /\ r.model = "gpt-4"
          /\ r.timestamp < Format(ret.value[1].Timestamp)

\* C21: Insert / InsertBatch followed by Query is a round trip on the
\* submitted fields: every record Query returns is equal, event timestamp
\* (the instant) included, to the record that was inserted for its row.
C21_QueryReturnsWhatWasInserted ==
    ret.op = "Query"
       => \A i \in DOMAIN ret.value :
             \E r \in BagToSet(usage_records) :
                /\ ret.value[i] = Scan(r)
                /\ ret.value[i] = r.record

\* ---------------------------------------------------------------- id column
\* the ids a run can assign
AllIds == 1..(MaxRows + MaxBatch)

\* the ids given to rows in a step
NewIds == DOMAIN ids' \ DOMAIN ids

\* C22: store-assigned identifiers are unique and strictly increasing in
\* insertion order over any sequence of Insert, InsertBatch and Cleanup:
\* the rows a step adds get ids above every id in the table, the rows of
\* one batch get ascending ids in the batch's order, and an id that was in
\* use and has been freed by Cleanup is never in use again.
C22_IdsIncreaseAndAreNeverReused ==
    /\ [][/\ \A i \in NewIds : \A j \in DOMAIN ids : j < i
          /\ Cardinality(NewIds) > 1
                => /\ tx.st = "commit"
                   /\ Cardinality(NewIds) = Len(tx.records)
                   /\ \A k \in 1..Len(tx.records) :
                         ids'[Ascending(NewIds)[k]] = Row(tx.records[k])
          /\ Count(usage_records') = Cardinality(DOMAIN ids')]_vars
    /\ \A i \in AllIds :
          [](i \in DOMAIN ids
               => [](i \notin DOMAIN ids => [](i \notin DOMAIN ids)))

\* C22 witness: an Insert has given id 2 to its row after Cleanup had freed
\* id 1
C22_Witness ==
    /\ ret.op = "Insert"
    /\ ret.err = "nil"
    /\ sqlite_sequence = 2
    /\ DOMAIN ids = {2}
    /\ ids[2].timestamp = Format(Time(10, 0))

\* ---------------------------------------------------------------- immutability
\* the operations that only read
ReadOnlyOps == ReadOps \cup {"Aggregate"}

\* the step is a call of a read operation
ReadStep == ret' # ret /\ ret'.op \in ReadOnlyOps

\* the step is a call of Cleanup
CleanupStep == ret' # ret /\ ret'.op = "Cleanup"

\* C23: persisted records are immutable: in every step the row of every
\* id that stays in the table is unchanged, so Insert and InsertBatch only
\* add rows; a read operation (Query, GetTotals, GetByModel, GetTimeseries,
\* Aggregate, GetRecordCount) changes nothing of the database; and a row
\* leaves the table only in a step of Cleanup.
C23_RecordsAreImmutable ==
    [][/\ \A i \in DOMAIN ids \cap DOMAIN ids' : ids'[i] = ids[i]
       /\ ReadStep => UNCHANGED stored
       /\ ~CleanupStep
             => /\ DOMAIN ids \subseteq DOMAIN ids'
                /\ usage_records \sqsubseteq usage_records']_vars

\* C23 witness: an Insert has added its row to a table that held a row,
\* which is still there
C23_Witness ==
    /\ ret.op = "Insert"
    /\ ret.err = "nil"
    /\ DOMAIN ids = {1, 2}
    /\ Count(usage_records) = 2

\* ---------------------------------------------------------------- store open
\* C24: opening the store is idempotent on its schema and data: an open of
\* the initialized store that no I/O fault hits succeeds, every open leaves
\* the records as they were, and the schema objects and the single
\* schema_version row (version 1) are as the first open left them.
C24_OpenIsIdempotent ==
    /\ schema = ExecSchema(NoSchema, 0).schema
    /\ schema.schema_version = SetToBag({1})
    /\ ret.op = "NewSQLiteStorage"
          => /\ ret.fault.at = "none" => ret.err = "nil"
             /\ <<usage_records, ids>> = ret.before

\* C24 witness: the store has been opened again, with success, over a table
\* that holds records
C24_Witness ==
    /\ ret.op = "NewSQLiteStorage"
    /\ ret.err = "nil"
    /\ Count(usage_records) = 2

\* ---------------------------------------------------------------- metrics
\* the request has an unparseable bound or an unknown granularity
BadRequest(q) ==
    \/ q.from.layout \notin {"", "RFC3339"}
    \/ q.to.layout \notin {"", "RFC3339"}
    \/ q.interval \notin {"", "hour", "day", "week", "month"}

\* C25 as stated: a metrics request with an unparseable from / to bound or
\* an unknown granularity is answered with status 400 and causes no store
\* operation, with persistence enabled or disabled.
C25_BadRequestIs400 ==
    (ret.op = "GetMetrics" /\ BadRequest(ret.request))
       => /\ ret.response.status = 400
          /\ ret.response.calls = <<>>

\* C25 amended: such a request causes no store operation in any state; it
\* is answered with status 400 when persistence is enabled, and with
\* status 503 when persistence is disabled.
C25_BadRequestIs400WhenEnabled ==
    (ret.op = "GetMetrics" /\ BadRequest(ret.request))
       => /\ ret.response.calls = <<>>
          /\ ret.response.status = IF ret.storage = "nil" THEN 503 ELSE 400

\* C25 witness: with persistence enabled, a request with an unparseable to
\* bound has been answered with status 400
C25_Witness ==
    /\ ret.op = "GetMetrics"
    /\ ret.storage # "nil"
    /\ ret.request.to = InvalidTime
    /\ ret.response.status = 400

\* a store read made for the request has failed
ReadFailed ==
    /\ ret.op = "GetMetrics"
    /\ ret.storage # "nil"
    /\ ~BadRequest(ret.request)
    /\ ret.fault # "none"

\* C26: a store failure during a metrics query is never reported as "no
\* data": if any of the store reads made for a request (totals, per-model
\* breakdown, timeseries, aggregate) fails, the response is a server-side
\* error, not a success response.
C26_FailedReadIsServerError ==
    ReadFailed => ret.response.status = 500

\* the rows of the given model
OfModel(rows, model) ==
    LET Is(r) == r.model = model
    IN Where(rows, Is)

\* C27: when a metrics request carries a model filter, the totals, the
\* per-model breakdown and the timeseries of the response are those of the
\* records of the window whose model equals the filter; without the filter
\* they are those of all records of the window.
C27_ModelFilterRestrictsMetrics ==
    (ret.op = "GetMetrics" /\ ret.response.status = 200
        /\ ret.fault = "none")
       => LET q == ret.request
              from == parseTime(q.from, Add(ret.at, -Day)).t
              to == parseTime(q.to, ret.at).t
              interval == IF q.interval = "" THEN "hour" ELSE q.interval
              rows == IF q.model = "" THEN ret.rows
                      ELSE OfModel(ret.rows, q.model)
              body == ret.response.body
          IN /\ body.totals = GetTotals(rows, from, to)
             /\ body.by_model \in GetByModel(rows, from, to)
             /\ body.timeseries = GetTimeseries(rows, from, to, interval)

\* ---------------------------------------------------------------- retention
\* the runs of the cleanup job so far
SweepLog == IF cleanupJob.pc = "none" THEN <<>> ELSE cleanupJob.log

\* C28: the retention sweeper is disabled when retention is zero or unset:
\* Initialize starts the cleanup loop exactly when it succeeds with
\* RetentionDays > 0, so with RetentionDays <= 0 there is no loop and no
\* Cleanup call; every sweep of a loop calls Cleanup with cutoff = (time of
\* the sweep) minus RetentionDays days.
C28_SweeperOnlyWithRetention ==
    /\ ret.op = "Initialize"
          => /\ cleanupJob.pc # "none"
                   <=> (ret.cfg.Enabled /\ ret.err = "nil"
                           /\ ret.cfg.RetentionDays > 0)
             /\ cleanupJob.pc # "none"
                   => cleanupJob.retentionDays = ret.cfg.RetentionDays
    /\ cleanupJob.pc # "none" => cleanupJob.retentionDays > 0
    /\ \A i \in DOMAIN SweepLog :
          /\ SweepLog[i].cutoff =
                Time(SweepLog[i].at.sec - cleanupJob.retentionDays * 86400,
                     SweepLog[i].at.frac)
          /\ i = Len(SweepLog) => SweepLog[i].at = now

\* C28 witness: a sweep of a loop started with 30 days of retention has
\* deleted the records older than its cutoff and kept a newer one
C28_Witness ==
    /\ cleanupJob.pc # "none"
    /\ cleanupJob.retentionDays = 30
    /\ Len(SweepLog) = 1
    /\ SweepLog[1].err = "nil"
    /\ SweepLog[1].deleted = 1
    /\ Count(usage_records) = 1

\* the step is a run of the cleanup job whose Cleanup call fails
FailedSweep ==
    /\ Len(SweepLog') = Len(SweepLog) + 1
    /\ SweepLog'[Len(SweepLog')].err # "nil"

\* C29: a failed retention sweep is never fatal and is retried: the loop,
\* once started, never ends; a sweep whose Cleanup call fails changes
\* nothing of the write buffer, the store and the results of the queries;
\* and after a failed sweep Cleanup is called again on the next cycle.
C29_FailedSweepIsRetried ==
    /\ [](cleanupJob.pc \in {"none", "wait"})
    /\ [][FailedSweep
             => UNCHANGED <<pluginVars, stored, tx, ret, globalStorage,
                            globalPersistencePlugin, plugins>>]_vars
    /\ \A n \in 1..(MaxSweeps - 1) :
          (Len(SweepLog) = n /\ SweepLog[n].err # "nil")
             ~> (Len(SweepLog) = n + 1)

\* C29 witness: the cleanup job has run again after a run that failed
C29_Witness ==
    /\ Len(SweepLog) = 2
    /\ SweepLog[1].err = "err"
    /\ cleanupJob.pc = "wait"

\* ---------------------------------------------------------------- startup
\* persistence is disabled: GetStorage and GetPlugin return nil, no plugin
\* is registered and no cleanup job runs
NothingSetUp ==
    /\ globalStorage = "nil"
    /\ globalPersistencePlugin = "nil"
    /\ plugins = <<>>
    /\ cleanupJob.pc = "none"

\* the call of Initialize fails: the configured type is unknown or not
\* implemented, or the store cannot be opened or its schema not applied
InitializeFails(r) ==
    /\ r.cfg.Enabled
    /\ \/ r.cfg.Type \notin {"sqlite", ""}
       \/ /\ r.fault.at # "none"
          /\ PathLen(r.cfg.Path) # 1

\* C30: if Initialize fails (the store cannot be opened, the schema cannot
\* be applied, or the type is unknown or unimplemented) it returns an error
\* and leaves persistence disabled: GetStorage and GetPlugin return nil, no
\* plugin is registered and no retention sweeper is started; with
\* persistence disabled in the configuration it returns nil and likewise
\* sets up nothing. (Whenever Initialize does not return nil, nothing is
\* set up.)
C30_FailedInitializeSetsUpNothing ==
    ret.op = "Initialize"
       => /\ InitializeFails(ret) => ret.err = "err"
          /\ ret.err # "nil" => NothingSetUp
          /\ ~ret.cfg.Enabled => ret.err = "nil" /\ NothingSetUp

\* C30 witness: Initialize has returned an error because a statement of the
\* schema failed after the tables had been created, and nothing is set up
C30_Witness ==
    /\ ret.op = "Initialize"
    /\ ret.err = "err"
    /\ ret.fault.at = "schema"
    /\ "usage_records" \in schema.objects
    /\ ret.cfg.RetentionDays > 0
    /\ NothingSetUp

\* the threshold a configured buffer size stands for
EffectiveThreshold(cfg) == IF cfg.BufferSize > 0 THEN cfg.BufferSize ELSE 100

\* the flush interval, in milliseconds, each configured text stands for
EffectiveFlushInterval ==
    (<<>> :> 10000) @@ (<<"0">> :> 10000) @@ (<<"0", "s">> :> 10000)
       @@ (<<"-", "5", "s">> :> 10000) @@ (<<"a", "b", "c">> :> 10000)
       @@ (<<"5">> :> 10000) @@ (<<"5", "s">> :> 5000)
       @@ (<<"5", "0", "0", "m", "s">> :> 500)
       @@ (<<"1", "m", "3", "0", "s">> :> 90000)

\* C31: the plugin Initialize makes has the configured buffer size if that
\* is positive and 100 otherwise, and the configured flush interval if that
\* parses to a positive duration and 10s otherwise; a HandleUsage call
\* starts a flush exactly when its event brings the buffer to that buffer
\* size, and the flush takes exactly that many events.
C31_DefaultsForNonPositiveConfig ==
    /\ [](ret.op = "Initialize" /\ ret.err = "nil"
             => /\ bufferSize = EffectiveThreshold(ret.cfg)
                /\ flushInterval = EffectiveFlushInterval[ret.cfg.FlushInterval]
                /\ mu = Free => Len(buffer) < EffectiveThreshold(ret.cfg))
    /\ [][pc["h1"] = "appended" /\ pc'["h1"] = "idle"
            => IF Len(buffer) = EffectiveThreshold(ret.cfg)
               THEN /\ buffer' = <<>>
                    /\ Len(writers') = Len(writers) + 1
                    /\ writers'[Len(writers')].batch = buffer
               ELSE /\ buffer' = buffer
                    /\ writers' = writers]_vars

\* a host configured with no buffer size and a negative flush interval has
\* flushed, at its hundredth event, a batch of 100 events
C31_Witness ==
    /\ ret.op = "Initialize"
    /\ ret.cfg.BufferSize <= 0
    /\ ret.cfg.FlushInterval = <<"-", "5", "s">>
    /\ flushInterval = 10000
    /\ Len(accepted) = 100
    /\ \E w \in 1..Len(writers) :
          Len(writers[w].batch) = 100 /\ writers[w].src = "threshold"

\* C32: from the state in which Stop has set the stopped flag on, no
\* background flush is started, by the timer loop or by HandleUsage, the
\* only task that takes the buffer is Stop in its final Flush, and the
\* timer goroutine gets to its return.
C32_StopStopsTimer ==
    /\ [][stopped
            => /\ Len(writers') = Len(writers)
               /\ buffer' # buffer
                     => /\ buffer' = <<>>
                        /\ \E t \in Stoppers :
                              /\ pc[t] = "flush_lock"
                              /\ toFlush'[t] = buffer]_vars
    /\ stopped ~> pc[TimerTask] = "exit"

\* Stop has returned and so has the timer goroutine; the two events that
\* were in the buffer went with Stop's final Flush and no background flush
\* was ever started
C32_Witness ==
    /\ pc[TimerTask] = "exit"
    /\ writers = <<>>
    /\ Len(toFlush["s1"]) = 2
    /\ stopRet["s1"] = "nil"

\* C33: every background write runs under a context made from
\* context.Background() with the fixed deadline of 30s, whatever the context
\* of the HandleUsage call that started it; cancelling a caller's context
\* changes no background write, and a background write only fails to begin
\* when the store is closed; the step of HandleUsage or of the timer loop
\* that starts a write releases the mutex with the write not yet begun.
C33_BackgroundWriteIndependentOfCaller ==
    /\ [](\A w \in 1..Len(writers) :
             writers[w].ctx = [parent |-> "Background", timeout |-> 30000])
    /\ [][/\ cancelled' # cancelled => writers' = writers /\ store' = store
          /\ \A w \in 1..Len(writers) :
                writers[w].st = "spawned" /\ writers'[w].st = "done"
                   => closed
          /\ Len(writers') > Len(writers)
                => /\ mu' = Free
                   /\ writers'[Len(writers')].st = "spawned"
                   /\ \A t \in Submitters \cup {TimerTask} :
                         pc'[t] \in {"idle", "lock", "select"}]_vars

\* the only HandleUsage call made reached the threshold and returned, its
\* context is cancelled, and the write it started has stored its event
C33_Witness ==
    /\ calls = 1
    /\ cancelled = {"h1"}
    /\ Len(writers) = 1
    /\ writers[1].src = "threshold"
    /\ writers[1].res = "nil"
    /\ 1 \in Stored

\* the sum of the Requests of the entries of a view
RECURSIVE SumRequests(_)
SumRequests(view) ==
    IF view = <<>> THEN 0 ELSE Head(view).Requests + SumRequests(Tail(view))

\* C34: in every response with status 200 (here: of those whose four reads
\* all succeeded, so that an emptied view is not what tells them apart) the
\* requests of by_model and the requests of timeseries both add up to
\* totals.requests, also when a batch insert or a cleanup commits while the
\* request is served.
C34_MetricsViewsAgree ==
    ret.op = "GetMetrics" /\ ret.response.status = 200 /\ ret.fault = "none"
       => /\ SumRequests(ret.response.body.by_model)
                = ret.response.body.totals.Requests
          /\ SumRequests(ret.response.body.timeseries)
                = ret.response.body.totals.Requests

\* C35: once Close has closed the store no store operation is issued
\* against it: no background writer dispatched before the shutdown calls
\* InsertBatch from then on.
C35_NoStoreOpAfterClose ==
    [][closed => \A w \in 1..Len(writers) :
                    writers[w].st = "spawned" => writers'[w].st = "spawned"]_vars

\* a Flush call is between taking the buffer and the return of InsertBatch
FlushInProgress == \E t \in FlushTasks : pc[t] = "inserting"

\* C36: whenever a Stop call has returned nil, the buffer is empty and the
\* store write of the final flush has completed, also for a Stop call that
\* runs concurrently with another one.
C36_StopNilMeansFlushed ==
    \A t \in Stoppers :
        stopRet[t] = "nil" => buffer = <<>> /\ ~FlushInProgress

\* C37: whenever the mutex is free the buffer holds fewer than bufferSize
\* events, and every batch handed to InsertBatch, by a background writer or
\* by Flush, holds at least one event and at most bufferSize events.
C37_BufferBoundedByThreshold ==
    /\ mu = Free => Len(buffer) < bufferSize
    /\ \A b \in BagToSet(issued) : Len(b) \in 1..bufferSize
    /\ \A w \in 1..Len(writers) : Len(writers[w].batch) \in 1..bufferSize

\* with a threshold of 2: one batch of two events went to InsertBatch from
\* the threshold flush, and a third event waits in the buffer
C37_Witness ==
    /\ bufferSize = 2
    /\ mu = Free
    /\ Len(buffer) = 1
    /\ \E b \in BagToSet(issued) : Len(b) = 2

\* the rows of a bag whose event time is not before olderThan
NotOlder(rows, olderThan) ==
    LET Is(r) == ~Before(r.record.Timestamp, olderThan) IN Where(rows, Is)

\* C38: Cleanup(olderThan) deletes no record whose event timestamp is at or
\* after olderThan, whatever the fractions of a second and the locations of
\* the two times are.
C38_CleanupKeepsNewer ==
    ret.op = "Cleanup"
       => \A r \in BagToSet(NotOlder(ret.before, ret.olderThan)) :
             CopiesIn(r, usage_records) = CopiesIn(r, ret.before)

\* a row of usage_records is gone after the step
RowLeaves ==
    \E r \in BagToSet(usage_records) :
       CopiesIn(r, usage_records') < CopiesIn(r, usage_records)

\* the step is a run of the cleanup job
SweepStep ==
    /\ cleanupJob.pc = "wait"
    /\ cleanupJob'.pc # "none"
    /\ Len(cleanupJob'.log) = Len(cleanupJob.log) + 1

NoCredentialsConfigured == ret.username = <<>> \/ ret.password = <<>>

\* the request served carries the Basic credentials configured: its
\* header has the Basic scheme and its payload is the encoding of
\* username, a colon, and password
CarriesConfiguredCredentials ==
    /\ ToLower(ret.auth.scheme) = "basic"
    /\ ret.auth.base64
    /\ ret.auth.text = ret.username \o <<":">> \o ret.password
    /\ \A i \in 1..Len(ret.username) : ret.username[i] # ":"

\* C40: a request behind BasicAuth reaches the handler only if no
\* credentials are configured or it carries the configured user name and
\* password; every other request is answered 401 and the handler is not
\* run
C40_OnlyAuthorizedReachHandler ==
    ret.op = "BasicAuth" =>
       IF NoCredentialsConfigured \/ CarriesConfiguredCredentials
       THEN TRUE
       ELSE ret.res.status = 401 /\ ~ret.res.handlerRan

\* a request with the right user name and a wrong password for configured
\* credentials was answered 401
C40_Witness ==
    /\ ret.op = "BasicAuth"
    /\ ret.username = <<"u">>
    /\ ret.password = <<"p">>
    /\ ret.auth = Authorization("Basic", <<"u", ":", "v">>)
    /\ ret.res.status = 401
    /\ ~ret.res.handlerRan

====
